---- MODULE Spec2Model ----
(***************************************************************************)
(* Plugin coordination core of incipio: the PluginManager (keyword router) *)
(* and the dispatch part of the Bubble Tea model (debounce, staleness).    *)
(*                                                                         *)
(* Strings are sequences of one-character strings.  Keywords and queries   *)
(* are drawn from a four-letter alphabet: two letters, the space and the   *)
(* tab (a whitespace character that strings.TrimSpace removes but that is  *)
(* not the ' ' separator DetermineActivePlugin looks for).                 *)
(***************************************************************************)
EXTENDS Integers, Sequences, FiniteSets, Bags, TLC

\* ---------------------------------------------------------------- bounds
MaxQueryLen == 4

MaxVer == 1

\* ------------------------------------------------------------- alphabet
SP == " "

TAB == "\t"

WhiteSpace == {SP, TAB}

Alphabet == {"w", "i", SP, TAB}

Str(n) == UNION {[1..k -> Alphabet] : k \in 0..n}

Queries == Str(MaxQueryLen)

\* The keywords plugins may carry: "w" is a strict prefix of "w i" (a keyword
\* may hold a space: nothing in RegisterPlugin forbids it), "w" and "i" have
\* the same length, and the empty keyword is the invalid one.
KwW == <<"w">>

KwWSI == <<"w", SP, "i">>

KwI == <<"i">>

NonEmptyKeywords == {KwW, KwWSI, KwI}

Keywords == NonEmptyKeywords \cup {<<>>}

\* ---------------------------------------------------------------- strings
RECURSIVE TrimLeft(_)
TrimLeft(s) ==
    IF s = <<>> THEN s
    ELSE IF Head(s) \in WhiteSpace THEN TrimLeft(Tail(s)) ELSE s

RECURSIVE TrimRight(_)
TrimRight(s) ==
    IF s = <<>> THEN s
    ELSE IF s[Len(s)] \in WhiteSpace THEN TrimRight(SubSeq(s, 1, Len(s) - 1)) ELSE s

TrimSpace(s) == TrimRight(TrimLeft(s))

HasPrefix(s, prefix) ==
    Len(s) >= Len(prefix) /\ SubSeq(s, 1, Len(prefix)) = prefix

\* s[n:] of Go (0-based n)
SliceFrom(s, n) == SubSeq(s, n + 1, Len(s))

\* ---------------------------------------------------------------- plugins
\* A plugin instance: its constant metadata (Keyword, IsDefault) and the
\* version of its mutable state (a new instance returned by Update).
Nil == [nil |-> TRUE]

PluginInstances == [kw : Keywords, isDefault : BOOLEAN, ver : 0..MaxVer]

Metadatas == [kw : Keywords, isDefault : BOOLEAN]

Metadata(p) == [kw |-> p.kw, isDefault |-> p.isDefault]

\* The plugins offered for registration: a default plugin with a keyword of
\* its own, plugins on "w" and "w i", a second plugin that claims to be the
\* default, and a plugin with the empty keyword.
Candidates ==
    {[kw |-> KwI, isDefault |-> TRUE, ver |-> 0],
     [kw |-> KwW, isDefault |-> FALSE, ver |-> 0],
     [kw |-> KwWSI, isDefault |-> FALSE, ver |-> 0],
     [kw |-> KwW, isDefault |-> TRUE, ver |-> 0],
     [kw |-> <<>>, isDefault |-> FALSE, ver |-> 0]}

VARIABLES
    plugins,                  \* PluginManager.plugins: keyword -> instance
    disabledPluginsMetadata,  \* PluginManager.disabledPluginsMetadata
    defaultPlugin,            \* PluginManager.defaultPlugin (or Nil)
    activePlugin,             \* PluginManager.activePlugin (or Nil)
    sortedKeywords,           \* PluginManager.sortedKeywords
    ret,                      \* the last PluginManager call: arguments and results
    input,                    \* the query text under examination (routing checks)
    phase,                    \* main: "register", then "run" (tea.Program.Run)
    text,                     \* model.textInput.Value()
    lastQuery,                \* model.lastQuery
    debounceTimer,            \* model.debounceTimer: "nil", or the timer it points to is "armed" or "fired"
    orphanTimers,             \* armed timers model.debounceTimer no longer points to
    procMsgs,                 \* processQueryMsg messages on their way to Update
    tracked,                  \* history: whether each timer, and the message it sends,
                              \* is recorded with the text it was armed for
    cmds,                     \* handleQueryChange commands not yet run
    calls,                    \* PluginManager.GetResults calls a command is inside of
    msgs,                     \* resultsMsg messages on their way to Update
    list,                     \* model.list: its items
    err,                      \* model.err # nil
    quitting,                 \* model.quitting
    ev,                       \* the last step, when it was Update handling a resultsMsg,
                              \* Esc or Enter: the message and what was done; else none
    loader,                   \* yaegi.LoadPlugins: the directory, the loop's position,
                              \* loadedPlugins (Nil while it is not under examination)
    startup,                  \* main.registerPlugins: the -plugins flag, allPlugins, the
                              \* loop's position (Nil while it is not under examination)
    execCmd,                  \* the command Execute returned for a selection: how often it
                              \* has been invoked, whether the runtime still has to run it
                              \* (Nil while it is not under examination)
    nix,                      \* the Nix Shell plugin: its fields, its loading goroutine, its
                              \* last call (Nil while it is not under examination)
    keys                      \* the keys the user has yet to press, whether the last one
                              \* edited the text (Nil: any number of keys)

pmVars == <<plugins, disabledPluginsMetadata, defaultPlugin, activePlugin, sortedKeywords>>

loopVars == <<phase, text, lastQuery, debounceTimer, orphanTimers, procMsgs, tracked, cmds,
              calls, msgs, list, err, quitting, ev, loader, startup, execCmd, nix, keys>>

vars == <<plugins, disabledPluginsMetadata, defaultPlugin, activePlugin, sortedKeywords, ret, input,
          phase, text, lastQuery, debounceTimer, orphanTimers, procMsgs, tracked, cmds,
          calls, msgs, list, err, quitting, ev, loader, startup, execCmd, nix, keys>>

NewPluginManager ==
    /\ plugins = <<>>
    /\ disabledPluginsMetadata = <<>>
    /\ defaultPlugin = Nil
    /\ activePlugin = Nil
    /\ sortedKeywords = <<>>

\* ------------------------------------------------------- RegisterPlugin
RECURSIVE Orderings(_)
Orderings(S) ==
    IF S = {} THEN {<<>>}
    ELSE UNION {{<<x>> \o p : p \in Orderings(S \ {x})} : x \in S}

\* the sort left out: keywords stay in registration order
SortByLenDescOmitted(seq) == {seq}

\* the comparison turned round: shortest keyword first
SortByLenAsc(seq) ==
    {s \in {[i \in 1..Len(seq) |-> seq[p[i]]] : p \in Orderings(1..Len(seq))} :
        \A i \in 1..Len(s) - 1 : Len(s[i]) <= Len(s[i + 1])}

\* sort.Slice with less = len(a) > len(b): any arrangement of the elements
\* in non-increasing length (the sort is not stable).
SortByLenDesc(seq) ==
    {s \in {[i \in 1..Len(seq) |-> seq[p[i]]] : p \in Orderings(1..Len(seq))} :
        \A i \in 1..Len(s) - 1 : Len(s[i]) >= Len(s[i + 1])}

\* only the empty keyword is rejected: a duplicate overwrites
RegisterFailsEmptyOnly(p) == p.kw = <<>>

RegisterFails(p) == p.kw = <<>> \/ p.kw \in DOMAIN plugins

\* a default plugin installed without being made active
RegisterPluginLeavesActive(p) ==
    IF RegisterFails(p)
    THEN /\ ret' = [op |-> "register", keyword |-> p.kw, err |-> TRUE]
         /\ UNCHANGED pmVars
    ELSE /\ plugins' = (p.kw :> p) @@ plugins
         /\ sortedKeywords' \in SortByLenDesc(Append(sortedKeywords, p.kw))
         /\ IF p.isDefault
            THEN defaultPlugin' = p /\ UNCHANGED activePlugin
            ELSE UNCHANGED <<defaultPlugin, activePlugin>>
         /\ ret' = [op |-> "register", keyword |-> p.kw, err |-> FALSE]
         /\ UNCHANGED disabledPluginsMetadata

\* the first default plugin kept: a later one does not replace it
RegisterPluginKeepsFirstDefault(p) ==
    IF RegisterFails(p)
    THEN /\ ret' = [op |-> "register", keyword |-> p.kw, err |-> TRUE]
         /\ UNCHANGED pmVars
    ELSE /\ plugins' = (p.kw :> p) @@ plugins
         /\ sortedKeywords' \in SortByLenDesc(Append(sortedKeywords, p.kw))
         /\ IF p.isDefault
            THEN /\ defaultPlugin' = IF defaultPlugin = Nil THEN p ELSE defaultPlugin
                 /\ activePlugin' = IF activePlugin = Nil THEN p ELSE activePlugin
            ELSE UNCHANGED <<defaultPlugin, activePlugin>>
         /\ ret' = [op |-> "register", keyword |-> p.kw, err |-> FALSE]
         /\ UNCHANGED disabledPluginsMetadata

RegisterPlugin(p) ==
    IF RegisterFails(p)
    THEN /\ ret' = [op |-> "register", keyword |-> p.kw, err |-> TRUE]
         /\ UNCHANGED pmVars
    ELSE /\ plugins' = (p.kw :> p) @@ plugins
         /\ sortedKeywords' \in SortByLenDesc(Append(sortedKeywords, p.kw))
         /\ IF p.isDefault
            THEN /\ defaultPlugin' = p
                 /\ activePlugin' = IF activePlugin = Nil THEN p ELSE activePlugin
            ELSE UNCHANGED <<defaultPlugin, activePlugin>>
         /\ ret' = [op |-> "register", keyword |-> p.kw, err |-> FALSE]
         /\ UNCHANGED disabledPluginsMetadata

\* ----------------------------------------------------- RegisterMetadata
\* the metadata recorded although the keyword is enabled
RegisterMetadataOverEnabled(md) ==
    /\ IF md.kw = <<>>
       THEN /\ ret' = [op |-> "registerMetadata", metadata |-> md, err |-> TRUE]
            /\ UNCHANGED disabledPluginsMetadata
       ELSE /\ ret' = [op |-> "registerMetadata", metadata |-> md, err |-> FALSE]
            /\ disabledPluginsMetadata' = (md.kw :> md) @@ disabledPluginsMetadata
    /\ UNCHANGED <<plugins, defaultPlugin, activePlugin, sortedKeywords>>

RegisterMetadata(md) ==
    /\ IF md.kw = <<>>
       THEN /\ ret' = [op |-> "registerMetadata", metadata |-> md, err |-> TRUE]
            /\ UNCHANGED disabledPluginsMetadata
       ELSE /\ ret' = [op |-> "registerMetadata", metadata |-> md, err |-> FALSE]
            /\ IF md.kw \in DOMAIN plugins
               THEN UNCHANGED disabledPluginsMetadata
               ELSE disabledPluginsMetadata' = (md.kw :> md) @@ disabledPluginsMetadata
    /\ UNCHANGED <<plugins, defaultPlugin, activePlugin, sortedKeywords>>

\* ------------------------------------------------ DetermineActivePlugin
KeywordOf(p) == IF p = Nil THEN <<>> ELSE p.kw

\* pure prefix matching, without the word boundary
KeywordMatchesPrefixOnly(trimmedQuery, keyword) ==
    /\ keyword # <<>>
    /\ HasPrefix(trimmedQuery, keyword)
    /\ keyword \in DOMAIN plugins

\* the test of one keyword of the loop over sortedKeywords
KeywordMatches(trimmedQuery, keyword) ==
    /\ keyword # <<>>
    /\ HasPrefix(trimmedQuery, keyword)
    /\ \/ Len(trimmedQuery) = Len(keyword)
       \/ Len(trimmedQuery) > Len(keyword) /\ trimmedQuery[Len(keyword) + 1] = SP
    /\ keyword \in DOMAIN plugins

\* the loop started from the active plugin instead of the default one
DeterminedPluginKeepsActive(query) ==
    LET trimmedQuery == TrimSpace(query)
        hits == {i \in 1..Len(sortedKeywords) : KeywordMatches(trimmedQuery, sortedKeywords[i])}
    IN  IF hits = {} THEN activePlugin
        ELSE plugins[sortedKeywords[CHOOSE i \in hits : \A j \in hits : i <= j]]

\* the keywords of the disabled metadata taken for routable ones: a query on
\* one of them goes to an instance made for it
DeterminedPluginDisabledToo(query) ==
    LET trimmedQuery == TrimSpace(query)
        hits == {i \in 1..Len(sortedKeywords) : KeywordMatches(trimmedQuery, sortedKeywords[i])}
        disabledHits ==
            {k \in DOMAIN disabledPluginsMetadata :
                /\ HasPrefix(trimmedQuery, k)
                /\ \/ Len(trimmedQuery) = Len(k)
                   \/ Len(trimmedQuery) > Len(k) /\ trimmedQuery[Len(k) + 1] = SP}
    IN  IF disabledHits # {}
        THEN [kw |-> CHOOSE k \in disabledHits : \A k2 \in disabledHits : Len(k) >= Len(k2),
              isDefault |-> FALSE, ver |-> 0]
        ELSE IF hits = {} THEN defaultPlugin
        ELSE plugins[sortedKeywords[CHOOSE i \in hits : \A j \in hits : i <= j]]

\* (with no keyword passing, the plugin of the first keyword of the list)
DeterminedPluginFirstKeyword(query) ==
    LET trimmedQuery == TrimSpace(query)
        hits == {i \in 1..Len(sortedKeywords) : KeywordMatches(trimmedQuery, sortedKeywords[i])}
    IN  IF hits = {}
        THEN IF sortedKeywords = <<>> THEN defaultPlugin ELSE plugins[sortedKeywords[1]]
        ELSE plugins[sortedKeywords[CHOOSE i \in hits : \A j \in hits : i <= j]]

\* the loop: the plugin of the first keyword that passes, else the default
DeterminedPlugin(query) ==
    LET trimmedQuery == TrimSpace(query)
        hits == {i \in 1..Len(sortedKeywords) : KeywordMatches(trimmedQuery, sortedKeywords[i])}
    IN  IF hits = {} THEN defaultPlugin
        ELSE plugins[sortedKeywords[CHOOSE i \in hits : \A j \in hits : i <= j]]

\* the comparison made against the default plugin instead of the active one
SwitchedAgainstDefault(query) == KeywordOf(defaultPlugin) # KeywordOf(DeterminedPlugin(query))

Switched(query) == KeywordOf(activePlugin) # KeywordOf(DeterminedPlugin(query))

ActiveAfterDetermine(query) ==
    LET a == IF Switched(query) THEN DeterminedPlugin(query) ELSE activePlugin
    IN  IF a = Nil THEN defaultPlugin ELSE a

DetermineActivePlugin(query) ==
    /\ activePlugin' = ActiveAfterDetermine(query)
    /\ ret' = [op |-> "determine", query |-> query,
               plugin |-> ActiveAfterDetermine(query),
               switched |-> Switched(query),
               prevActive |-> activePlugin]
    /\ UNCHANGED <<plugins, disabledPluginsMetadata, defaultPlugin, sortedKeywords>>

\* ----------------------------------------------------------- GetResults
GetCurrentPlugin == IF activePlugin = Nil THEN defaultPlugin ELSE activePlugin

\* the case of a query that is exactly the keyword left out
PluginQueryNoExactCase(active, query) ==
    LET trimmedQuery == TrimSpace(query)
        prefixLen == Len(active.kw)
    IN  IF ~active.isDefault /\ active.kw # <<>> /\ HasPrefix(trimmedQuery, active.kw)
        THEN IF Len(trimmedQuery) > prefixLen /\ trimmedQuery[prefixLen + 1] = SP
             THEN TrimSpace(SliceFrom(trimmedQuery, prefixLen + 1))
             ELSE query
        ELSE query

\* the trimmed query as the text that is passed on when nothing is stripped
PluginQueryTrimmedFallback(active, query) ==
    LET trimmedQuery == TrimSpace(query)
        prefixLen == Len(active.kw)
    IN  IF ~active.isDefault /\ active.kw # <<>> /\ HasPrefix(trimmedQuery, active.kw)
        THEN IF Len(trimmedQuery) > prefixLen /\ trimmedQuery[prefixLen + 1] = SP
             THEN TrimSpace(SliceFrom(trimmedQuery, prefixLen + 1))
             ELSE IF Len(trimmedQuery) = prefixLen THEN <<>> ELSE trimmedQuery
        ELSE trimmedQuery

\* the remainder passed on as it is, without the second TrimSpace
PluginQueryNoTrim(active, query) ==
    LET trimmedQuery == TrimSpace(query)
        prefixLen == Len(active.kw)
    IN  IF ~active.isDefault /\ active.kw # <<>> /\ HasPrefix(trimmedQuery, active.kw)
        THEN IF Len(trimmedQuery) > prefixLen /\ trimmedQuery[prefixLen + 1] = SP
             THEN SliceFrom(trimmedQuery, prefixLen + 1)
             ELSE IF Len(trimmedQuery) = prefixLen THEN <<>> ELSE query
        ELSE query

\* the query text handed to the active plugin's GetResults
PluginQuery(active, query) ==
    LET trimmedQuery == TrimSpace(query)
        prefixLen == Len(active.kw)
    IN  IF ~active.isDefault /\ active.kw # <<>> /\ HasPrefix(trimmedQuery, active.kw)
        THEN IF Len(trimmedQuery) > prefixLen /\ trimmedQuery[prefixLen + 1] = SP
             THEN TrimSpace(SliceFrom(trimmedQuery, prefixLen + 1))
             ELSE IF Len(trimmedQuery) = prefixLen THEN <<>> ELSE query
        ELSE query

GetResults(query) ==
    /\ ret' = IF GetCurrentPlugin = Nil
              THEN [op |-> "getResults", query |-> query, err |-> TRUE]
              ELSE [op |-> "getResults", query |-> query, err |-> FALSE,
                    plugin |-> GetCurrentPlugin,
                    pluginQuery |-> PluginQuery(GetCurrentPlugin, query)]
    /\ UNCHANGED pmVars

\* ------------------------------------------------- UpdatePluginInstance
\* the three early returns: nil, empty keyword, keyword not registered
UpdateApplies(updatedPlugin) ==
    /\ updatedPlugin # Nil
    /\ KeywordOf(updatedPlugin) # <<>>
    /\ KeywordOf(updatedPlugin) \in DOMAIN plugins

\* pm.plugins after the call
PluginsAfterUpdate(updatedPlugin) ==
    IF UpdateApplies(updatedPlugin)
    THEN [plugins EXCEPT ![updatedPlugin.kw] = updatedPlugin]
    ELSE plugins

\* the references left as they were: the map alone gets the new instance
RefAfterUpdateStale(ref, updatedPlugin) == ref

\* the references follow every write-back, whatever their keyword
RefAfterUpdateAlways(ref, updatedPlugin) ==
    IF UpdateApplies(updatedPlugin) /\ ref # Nil
    THEN updatedPlugin
    ELSE ref

\* pm.activePlugin, pm.defaultPlugin after the call, from their value before
RefAfterUpdate(ref, updatedPlugin) ==
    IF UpdateApplies(updatedPlugin) /\ ref # Nil /\ ref.kw = updatedPlugin.kw
    THEN updatedPlugin
    ELSE ref

UpdatePluginInstance(updatedPlugin) ==
    /\ plugins' = PluginsAfterUpdate(updatedPlugin)
    /\ activePlugin' = RefAfterUpdate(activePlugin, updatedPlugin)
    /\ defaultPlugin' = RefAfterUpdate(defaultPlugin, updatedPlugin)
    /\ ret' = [op |-> "update", plugin |-> updatedPlugin]
    /\ UNCHANGED <<disabledPluginsMetadata, sortedKeywords>>

\* ---------------------------------------------------------- InitPlugins
\* no keyword marked: the loop over the map calls the default plugin again
InitializedKeywordsNone == {}

\* initializedKeywords once the default plugin's Init has been called
InitializedKeywords ==
    IF defaultPlugin # Nil /\ KeywordOf(defaultPlugin) # <<>>
    THEN {KeywordOf(defaultPlugin)}
    ELSE {}

\* what a plugin's Init returns: no command, or a command
InitEffects == {"nil", "cmd"}

\* the Init calls in order (the default plugin, then the map in any order of
\* its keys), what each returned, and the command handed back: nil, or the
\* batch of the commands returned, named by the plugin that returned them
InitPlugins ==
    /\ \E order \in Orderings(DOMAIN plugins \ InitializedKeywords) :
           LET inits == (IF defaultPlugin # Nil THEN <<defaultPlugin>> ELSE <<>>)
                            \o [i \in 1..Len(order) |-> plugins[order[i]]]
           IN  \E effects \in [1..Len(inits) -> InitEffects] :
                   LET called == {i \in 1..Len(inits) : effects[i] # "nil"}
                       batch == SelectSeq([i \in 1..Len(inits) |-> i], LAMBDA i : i \in called)
                   IN  ret' = [op |-> "initPlugins",
                               inits |-> inits,
                               effects |-> effects,
                               cmd |-> IF Len(batch) = 0 THEN Nil
                                       ELSE [batch |-> [j \in 1..Len(batch) |-> inits[batch[j]]]]]
    /\ UNCHANGED pmVars

\* ------------------------------------------------------------ routing
\* The router driven with one query under examination: plugins are
\* registered in any order, earlier queries move the active reference, and
\* the examined query is routed and dispatched.
PreviousQueries == {<<>>} \cup NonEmptyKeywords

\* the model before InitialModel: nothing typed, nothing in flight
ModelNotBuilt ==
    /\ phase = "register"
    /\ text = <<>>
    /\ lastQuery = <<>>
    /\ debounceTimer = "nil"
    /\ orphanTimers = EmptyBag
    /\ procMsgs = EmptyBag
    /\ cmds = EmptyBag
    /\ calls = EmptyBag
    /\ msgs = EmptyBag
    /\ list = <<>>
    /\ err = FALSE
    /\ quitting = FALSE
    /\ ev = [type |-> "none"]

\* the plugin directory and the startup flags are not under examination
NoBoot == loader = Nil /\ startup = Nil

\* no selection, no Nix Shell plugin and no count of keys is under examination
NoScenario == execCmd = Nil /\ nix = Nil /\ keys = Nil

NoModel == ModelNotBuilt /\ tracked = FALSE /\ NoBoot /\ NoScenario

InitRoute ==
    /\ NewPluginManager
    /\ ret = [op |-> "new"]
    /\ input \in Queries
    /\ NoModel

RouteRegister ==
    /\ \E p \in Candidates : RegisterPlugin(p)
    /\ UNCHANGED <<input, loopVars>>

RoutePrevious ==
    /\ \E q \in PreviousQueries : DetermineActivePlugin(q)
    /\ UNCHANGED <<input, loopVars>>

RouteDetermine ==
    /\ DetermineActivePlugin(input)
    /\ UNCHANGED <<input, loopVars>>

RouteGetResults ==
    /\ GetResults(input)
    /\ UNCHANGED <<input, loopVars>>

NextRoute ==
    \/ RouteRegister
    \/ RoutePrevious
    \/ RouteDetermine
    \/ RouteGetResults

SpecRoute == InitRoute /\ [][NextRoute]_vars

\* ------------------------------------------------------------ manager
\* The router's calls in any order and with any argument: registrations of
\* plugins and of metadata, routing of a query, write-back of an instance.
RoutedQueries == {<<>>, KwW, KwWSI, <<"w", "i">>}

DisabledCandidates ==
    {[kw |-> KwW, isDefault |-> FALSE],
     [kw |-> KwWSI, isDefault |-> FALSE],
     [kw |-> <<>>, isDefault |-> FALSE]}

\* the instances a plugin's Update may hand back, and nil
UpdatedInstances ==
    {Nil} \cup {[p EXCEPT !.ver = v] : p \in Candidates, v \in 0..MaxVer}

InitManager ==
    /\ NewPluginManager
    /\ ret = [op |-> "new"]
    /\ input = <<>>
    /\ NoModel

CallRegisterPlugin ==
    /\ \E p \in Candidates : RegisterPlugin(p)
    /\ UNCHANGED <<input, loopVars>>

CallRegisterMetadata ==
    /\ \E md \in DisabledCandidates : RegisterMetadata(md)
    /\ UNCHANGED <<input, loopVars>>

CallDetermineActivePlugin ==
    /\ \E q \in RoutedQueries : DetermineActivePlugin(q)
    /\ UNCHANGED <<input, loopVars>>

CallUpdatePluginInstance ==
    /\ \E u \in UpdatedInstances : UpdatePluginInstance(u)
    /\ UNCHANGED <<input, loopVars>>

CallInitPlugins ==
    /\ InitPlugins
    /\ UNCHANGED <<input, loopVars>>

NextManager ==
    \/ CallRegisterPlugin
    \/ CallRegisterMetadata
    \/ CallDetermineActivePlugin
    \/ CallUpdatePluginInstance
    \/ CallInitPlugins

SpecManager == InitManager /\ [][NextManager]_vars

\* ===================================================================
\* The interaction loop: main, InitialModel and model.Update
\* ===================================================================
MaxTextLen == 2

MaxInFlight == 2

\* the characters the user types: "w" is the keyword of a plugin, "ww" is
\* the keyword of none
TypedChars == {"w"}

\* the built-in plugins main registers, in order: the default plugin (the
\* application launcher) and a mandatory plugin with a keyword
BuiltIns ==
    <<[kw |-> KwI, isDefault |-> TRUE, ver |-> 0],
      [kw |-> KwW, isDefault |-> FALSE, ver |-> 0]>>

\* plugin.Update: the built-in plugins return the instance they were called
\* on ("return p, nil")
PluginUpdate(p) == {p}

\* what a plugin's GetResults comes back with: one item, no item, an error
Outcomes == {"item", "none", "error"}

\* the items of a result: an item carries the plugin that made it and the
\* query it was made for (its identifier is opaque to the loop)
Results(p, pluginQuery, outcome) ==
    IF outcome = "item" THEN <<[by |-> p.kw, pluginQuery |-> pluginQuery]>> ELSE <<>>

\* what a plugin's Execute returns: no command, tea.Quit, another command
Effects == {"nil", "quit", "other"}

\* the effects to tell apart in ev: those a plugin method called in the step
\* may return when history is recorded, else the one mark "unseen"
SeenEffects(called) == IF tracked /\ called THEN Effects ELSE {"unseen"}

\* the record r of a step, with the effect its plugin call returned
WithEffect(r, effect) ==
    IF effect = "unseen" THEN r
    ELSE [f \in DOMAIN r \cup {"effect"} |-> IF f = "effect" THEN effect ELSE r[f]]

\* timers, commands and messages under way
InFlight ==
    BagCardinality(cmds) + BagCardinality(calls) + BagCardinality(msgs)
        + BagCardinality(procMsgs) + BagCardinality(orphanTimers)
        + (IF debounceTimer = "armed" THEN 1 ELSE 0)

Running == phase = "run"

\* ---------------------------------------------------------------- main
StartupRegister ==
    /\ phase = "register"
    /\ Len(sortedKeywords) < Len(BuiltIns)
    /\ RegisterPlugin(BuiltIns[Len(sortedKeywords) + 1])
    /\ UNCHANGED <<input, loopVars>>

InitialModel ==
    /\ phase = "register"
    /\ Len(sortedKeywords) = Len(BuiltIns)
    /\ phase' = "run"
    /\ IF GetCurrentPlugin = Nil
       THEN list' = <<>> /\ err' = FALSE
       ELSE \E outcome \in Outcomes :
               /\ err' = (outcome = "error")
               /\ list' = Results(GetCurrentPlugin, <<>>, outcome)
    /\ \E effect \in SeenEffects(DOMAIN plugins # {}) :
           ev' = WithEffect([type |-> "none"], effect)
    /\ UNCHANGED <<pmVars, ret, input, tracked, calls, loader, startup, text, lastQuery,
                   debounceTimer, orphanTimers, procMsgs, cmds, msgs, quitting, execCmd,
                   nix, keys>>

\* ---------------------------------------------------- handleQueryChange
\* the list after handleQueryChange(newQuery)
ListAfterQueryChange(newQuery) ==
    IF Switched(newQuery) \/ ActiveAfterDetermine(newQuery) = Nil THEN <<>> ELSE list

\* the command handleQueryChange(newQuery) returns (none without a plugin).
\* Its pluginSwitched only moves the list cursor, which a list of at most
\* one item does not have.
QueryCmd(newQuery) ==
    IF ActiveAfterDetermine(newQuery) = Nil THEN EmptyBag
    ELSE SetToBag({[forQuery |-> newQuery]})

\* ---------------------------------------------------- updatePluginState
updatePluginState(updatedPlugin) ==
    /\ plugins' = PluginsAfterUpdate(updatedPlugin)
    /\ activePlugin' = RefAfterUpdate(activePlugin, updatedPlugin)
    /\ defaultPlugin' = RefAfterUpdate(defaultPlugin, updatedPlugin)

\* the user has a key to press
KeyLeft == IF keys = Nil THEN TRUE ELSE keys.left > 0

\* the keys yet to press once one has been pressed, and whether that one
\* was a key that edits the text
KeysAfter(edited) == IF keys = Nil THEN Nil ELSE [left |-> keys.left - 1, edited |-> edited]

\* Update, "Plugin Update Handling": the message goes to the active plugin
ForwardToPlugin ==
    IF GetCurrentPlugin = Nil
    THEN UNCHANGED <<plugins, activePlugin, defaultPlugin>>
    ELSE \E u \in PluginUpdate(GetCurrentPlugin) : updatePluginState(u)

\* ----------------------------------------- Update: a key that edits text
\* (the text changes and the query on record stays behind)
ArmDebounceKeepsQuery(newQuery) ==
    /\ text' = newQuery
    /\ lastQuery' = lastQuery
    /\ debounceTimer' = "armed"

\* Update, "Query Processing (Debounced)", for a text that has changed
ArmDebounce(newQuery) ==
    /\ text' = newQuery
    /\ lastQuery' = newQuery
    /\ debounceTimer' = "armed"

\* the query dispatched at once on every edit, without waiting for the timer
EditTextDispatches(newQuery) ==
    /\ Running
    /\ KeyLeft
    /\ keys' = KeysAfter(TRUE)
    /\ debounceTimer = "armed" \/ InFlight < MaxInFlight
    /\ ForwardToPlugin
    /\ ArmDebounce(newQuery)
    /\ \E effect \in SeenEffects(GetCurrentPlugin # Nil) :
           ev' = WithEffect([type |-> "none"], effect)
    /\ cmds' = cmds (+) QueryCmd(newQuery)
    /\ UNCHANGED <<disabledPluginsMetadata, sortedKeywords, ret, input, tracked, calls,
                   loader, startup, phase, orphanTimers, procMsgs, msgs, list, err,
                   quitting, execCmd, nix>>

EditText(newQuery) ==
    /\ Running
    /\ KeyLeft
    /\ keys' = KeysAfter(TRUE)
    /\ debounceTimer = "armed" \/ InFlight < MaxInFlight
    /\ ForwardToPlugin
    /\ ArmDebounce(newQuery)
    /\ \E effect \in SeenEffects(GetCurrentPlugin # Nil) :
           ev' = WithEffect([type |-> "none"], effect)
    /\ UNCHANGED <<disabledPluginsMetadata, sortedKeywords, ret, input, tracked, calls,
                   loader, startup, phase, orphanTimers, procMsgs, cmds, msgs, list, err,
                   quitting, execCmd, nix>>

KeyPress ==
    \E c \in TypedChars : Len(text) < MaxTextLen /\ EditText(Append(text, c))

Backspace ==
    text # <<>> /\ EditText(SubSeq(text, 1, Len(text) - 1))

\* a message that is no key and none of the loop's own (a plugin's message)
OtherMsg ==
    /\ Running
    /\ ForwardToPlugin
    /\ \E effect \in SeenEffects(GetCurrentPlugin # Nil) :
           ev' = WithEffect([type |-> "none"], effect)
    /\ UNCHANGED <<disabledPluginsMetadata, sortedKeywords, ret, input, tracked, calls,
                   loader, startup, phase, text, lastQuery, debounceTimer, orphanTimers,
                   procMsgs, cmds, msgs, list, err, quitting, execCmd, nix, keys>>

\* ------------------------------------------------- Update: WindowSizeMsg
Resize ==
    /\ Running
    /\ plugins' \in [DOMAIN plugins -> UNION {PluginUpdate(plugins[k]) : k \in DOMAIN plugins}]
    /\ \A k \in DOMAIN plugins : plugins'[k] \in PluginUpdate(plugins[k])
    /\ activePlugin' = IF activePlugin # Nil /\ activePlugin.kw \in DOMAIN plugins
                       THEN plugins'[activePlugin.kw] ELSE activePlugin
    /\ defaultPlugin' = IF defaultPlugin # Nil /\ defaultPlugin.kw \in DOMAIN plugins
                        THEN plugins'[defaultPlugin.kw] ELSE defaultPlugin
    /\ \E effect \in SeenEffects(DOMAIN plugins # {}) :
           ev' = WithEffect([type |-> "none"], effect)
    /\ UNCHANGED <<disabledPluginsMetadata, sortedKeywords, ret, input, tracked, calls,
                   loader, startup, phase, text, lastQuery, debounceTimer, orphanTimers,
                   procMsgs, cmds, msgs, list, err, quitting, execCmd, nix, keys>>

\* ------------------------------------------------------ the debounce timer
\* what is recorded of the timer armed last: lastQuery was assigned with it
ArmedFor == IF tracked THEN lastQuery ELSE <<>>

\* the timer model.debounceTimer points to expires: its command returns
\* processQueryMsg.  The timer was armed when lastQuery was last assigned.
TimerFires ==
    /\ Running
    /\ debounceTimer = "armed"
    /\ debounceTimer' = "fired"
    /\ procMsgs' = procMsgs (+) SetToBag({ArmedFor})
    /\ ev' = [type |-> "none"]
    /\ UNCHANGED <<pmVars, ret, input, tracked, calls, loader, startup, phase, text,
                   lastQuery, orphanTimers, cmds, msgs, list, err, quitting, execCmd,
                   nix, keys>>

\* an armed timer the model has let go of expires
OrphanFires ==
    /\ Running
    /\ \E armedFor \in BagToSet(orphanTimers) :
        /\ orphanTimers' = orphanTimers (-) SetToBag({armedFor})
        /\ procMsgs' = procMsgs (+) SetToBag({armedFor})
    /\ ev' = [type |-> "none"]
    /\ UNCHANGED <<pmVars, ret, input, tracked, calls, loader, startup, phase, text,
                   lastQuery, debounceTimer, cmds, msgs, list, err, quitting, execCmd,
                   nix, keys>>

\* ----------------------------------------------- Update: processQueryMsg
\* the timer let go of, armed, when the reference is set to nil
LetGo == IF debounceTimer = "armed" THEN SetToBag({ArmedFor}) ELSE EmptyBag

ProcessQuery ==
    /\ Running
    /\ \E armedFor \in BagToSet(procMsgs) :
        /\ procMsgs' = procMsgs (-) SetToBag({armedFor})
        /\ ev' = [type |-> "none"]
    /\ IF debounceTimer # "nil"
       THEN /\ err' = FALSE
            /\ activePlugin' = ActiveAfterDetermine(lastQuery)
            /\ list' = ListAfterQueryChange(lastQuery)
            /\ cmds' = cmds (+) QueryCmd(lastQuery)
       ELSE UNCHANGED <<err, activePlugin, list, cmds>>
    /\ orphanTimers' = orphanTimers (+) LetGo
    /\ debounceTimer' = "nil"
    /\ UNCHANGED <<plugins, disabledPluginsMetadata, defaultPlugin, sortedKeywords, ret,
                   input, tracked, calls, loader, startup, phase, text, lastQuery, msgs,
                   quitting, execCmd, nix, keys>>

\* ------------------------------------- the command of handleQueryChange
\* runs m.pluginManager.GetResults(newQuery) and returns a resultsMsg
\* the messages the command may return when GetResults finds active to be
\* the current plugin
ResultsMsgs(active, forQuery) ==
    IF active = Nil
    THEN {[results |-> <<>>, err |-> TRUE, forQuery |-> forQuery]}
    ELSE {[results |-> Results(active, PluginQuery(active, forQuery), outcome),
           err |-> (outcome = "error"),
           forQuery |-> forQuery] : outcome \in Outcomes}

\* the command from its start to its return, as one step
RunQueryCmd ==
    /\ Running
    /\ \E c \in BagToSet(cmds) :
        /\ cmds' = cmds (-) SetToBag({c})
        /\ \E msg \in ResultsMsgs(GetCurrentPlugin, c.forQuery) :
               msgs' = msgs (+) SetToBag({msg})
    /\ ev' = [type |-> "none"]
    /\ UNCHANGED <<pmVars, ret, input, tracked, calls, loader, startup, phase, text,
                   lastQuery, debounceTimer, orphanTimers, procMsgs, list, err, quitting,
                   execCmd, nix, keys>>

\* ---------------------------------------------------- Update: resultsMsg
\* (a guard that lets through the result of a query the latest one extends)
IsStaleUnlessPrefix(msg) == ~HasPrefix(lastQuery, msg.forQuery)

\* a result that has fallen behind the query it is compared with
IsStale(msg) == msg.forQuery # lastQuery

\* an error in the result taken as fatal: the loop quits
ResultsArriveQuitsOnError ==
    /\ Running
    /\ \E msg \in BagToSet(msgs) :
        /\ msgs' = msgs (-) SetToBag({msg})
        /\ IF IsStale(msg)
           THEN /\ UNCHANGED <<list, err, quitting>>
                /\ ev' = [type |-> "resultsMsg", applied |-> FALSE]
           ELSE /\ err' = msg.err
                /\ quitting' = (quitting \/ msg.err)
                /\ list' = IF msg.err THEN <<>> ELSE msg.results
                /\ ev' = [type |-> "resultsMsg", applied |-> TRUE]
    /\ UNCHANGED <<pmVars, ret, input, tracked, calls, loader, startup, phase, text,
                   lastQuery, debounceTimer, orphanTimers, procMsgs, cmds, execCmd, nix,
                   keys>>

ResultsArrive ==
    /\ Running
    /\ \E msg \in BagToSet(msgs) :
        /\ msgs' = msgs (-) SetToBag({msg})
        /\ IF IsStale(msg)
           THEN /\ UNCHANGED <<list, err>>
                /\ ev' = [type |-> "resultsMsg", applied |-> FALSE]
           ELSE /\ err' = msg.err
                /\ list' = IF msg.err THEN <<>> ELSE msg.results
                /\ ev' = [type |-> "resultsMsg", applied |-> TRUE]
    /\ UNCHANGED <<pmVars, ret, input, tracked, calls, loader, startup, phase, text,
                   lastQuery, debounceTimer, orphanTimers, procMsgs, cmds, quitting,
                   execCmd, nix, keys>>

\* ------------------------------------------------------ Update: key Esc
\* the reference dropped without the timer being stopped
EscClearLetsTimerGo ==
    /\ Running
    /\ KeyLeft
    /\ keys' = KeysAfter(FALSE)
    /\ text # <<>>
    /\ debounceTimer = "armed" \/ InFlight < MaxInFlight
    /\ debounceTimer' = "nil"
    /\ text' = <<>>
    /\ err' = FALSE
    /\ list' = ListAfterQueryChange(<<>>)
    /\ cmds' = cmds (+) QueryCmd(<<>>)
    /\ IF ActiveAfterDetermine(<<>>) = Nil
       THEN /\ activePlugin' = Nil
            /\ UNCHANGED <<plugins, defaultPlugin>>
       ELSE \E u \in PluginUpdate(ActiveAfterDetermine(<<>>)) :
               /\ plugins' = PluginsAfterUpdate(u)
               /\ activePlugin' = RefAfterUpdate(ActiveAfterDetermine(<<>>), u)
               /\ defaultPlugin' = RefAfterUpdate(defaultPlugin, u)
    /\ \E effect \in SeenEffects(ActiveAfterDetermine(<<>>) # Nil) :
           ev' = WithEffect([type |-> "esc", armed |-> debounceTimer = "armed",
                             notified |-> KeywordOf(ActiveAfterDetermine(<<>>)),
                             quit |-> FALSE], effect)
    /\ orphanTimers' = orphanTimers (+) LetGo
    /\ UNCHANGED <<disabledPluginsMetadata, sortedKeywords, ret, input, tracked, calls,
                   loader, startup, phase, lastQuery, procMsgs, msgs, quitting, execCmd,
                   nix>>

EscClear ==
    /\ Running
    /\ KeyLeft
    /\ keys' = KeysAfter(FALSE)
    /\ text # <<>>
    /\ debounceTimer = "armed" \/ InFlight < MaxInFlight
    /\ debounceTimer' = "nil"
    /\ text' = <<>>
    /\ err' = FALSE
    /\ list' = ListAfterQueryChange(<<>>)
    /\ cmds' = cmds (+) QueryCmd(<<>>)
    /\ IF ActiveAfterDetermine(<<>>) = Nil
       THEN /\ activePlugin' = Nil
            /\ UNCHANGED <<plugins, defaultPlugin>>
       ELSE \E u \in PluginUpdate(ActiveAfterDetermine(<<>>)) :
               /\ plugins' = PluginsAfterUpdate(u)
               /\ activePlugin' = RefAfterUpdate(ActiveAfterDetermine(<<>>), u)
               /\ defaultPlugin' = RefAfterUpdate(defaultPlugin, u)
    /\ \E effect \in SeenEffects(ActiveAfterDetermine(<<>>) # Nil) :
           ev' = WithEffect([type |-> "esc", armed |-> debounceTimer = "armed",
                             notified |-> KeywordOf(ActiveAfterDetermine(<<>>)),
                             quit |-> FALSE], effect)
    /\ UNCHANGED <<disabledPluginsMetadata, sortedKeywords, ret, input, tracked, calls,
                   loader, startup, phase, lastQuery, orphanTimers, procMsgs, msgs,
                   quitting, execCmd, nix>>

EscQuit ==
    /\ Running
    /\ KeyLeft
    /\ keys' = KeysAfter(FALSE)
    /\ text = <<>>
    /\ debounceTimer' = "nil"
    /\ quitting' = TRUE
    /\ ev' = [type |-> "esc", armed |-> debounceTimer = "armed", quit |-> TRUE]
    /\ UNCHANGED <<pmVars, ret, input, tracked, calls, loader, startup, phase, text,
                   lastQuery, orphanTimers, procMsgs, cmds, msgs, list, err, execCmd,
                   nix>>

\* (the command compared without being called: Update invokes nothing)
InvokedInUpdateNever(effect) == 0

\* how often Update itself invokes the command Execute returned:
\* "execCmd != nil && execCmd() == tea.Quit()"
InvokedInUpdate(effect) == IF effect # "nil" THEN 1 ELSE 0

\* the selection followed: a new one once the command of the last has been run;
\* "return m, execCmd" hands the command to the runtime
ExecCmdAfter(effect) ==
    IF execCmd = Nil THEN Nil
    ELSE IF execCmd.pending THEN execCmd
    ELSE [effect |-> effect, invoked |-> InvokedInUpdate(effect), pending |-> effect # "nil"]

\* (the flush left out: Enter acts on the routing of the last dispatch)
FlushesNever == FALSE

\* ---------------------------------------------------- Update: key Enter
\* the pending timer is stopped and its query handled at once
Flushes == debounceTimer # "nil"

ActiveAfterFlush == IF Flushes THEN ActiveAfterDetermine(text) ELSE activePlugin

ListAfterFlush == IF Flushes THEN ListAfterQueryChange(text) ELSE list

Enter ==
    /\ Running
    /\ KeyLeft
    /\ keys' = KeysAfter(FALSE)
    /\ debounceTimer' = "nil"
    /\ err' = (IF Flushes THEN FALSE ELSE err)
    /\ activePlugin' = ActiveAfterFlush
    /\ list' = ListAfterFlush
    /\ IF ListAfterFlush # <<>>
       THEN \* an item is selected: Execute, and only its command is returned
            /\ cmds' = cmds
            /\ \E effect \in (IF ActiveAfterFlush = Nil /\ defaultPlugin = Nil
                               THEN {"nil"} ELSE Effects) :
                   /\ quitting' = (quitting \/ effect = "quit")
                   /\ execCmd' = ExecCmdAfter(effect)
                   /\ ev' = WithEffect(
                          [type |-> "enter", pending |-> debounceTimer # "nil",
                           executed |-> TRUE, id |-> ListAfterFlush[1],
                           plugin |-> IF ActiveAfterFlush = Nil THEN defaultPlugin
                                      ELSE ActiveAfterFlush],
                          IF tracked /\ ~(ActiveAfterFlush = Nil /\ defaultPlugin = Nil)
                          THEN effect ELSE "unseen")
       ELSE /\ cmds' = cmds (+) (IF Flushes THEN QueryCmd(text) ELSE EmptyBag)
            /\ UNCHANGED <<quitting, execCmd>>
            /\ ev' = [type |-> "enter", pending |-> debounceTimer # "nil", executed |-> FALSE]
    /\ UNCHANGED <<plugins, disabledPluginsMetadata, defaultPlugin, sortedKeywords, ret,
                   input, tracked, calls, loader, startup, phase, text, lastQuery,
                   orphanTimers, procMsgs, msgs, nix>>

\* ---------------------------------------------------- Update: key ctrl+c
CtrlC ==
    /\ Running
    /\ KeyLeft
    /\ keys' = KeysAfter(FALSE)
    /\ quitting' = TRUE
    /\ ev' = [type |-> "none"]
    /\ UNCHANGED <<pmVars, ret, input, tracked, calls, loader, startup, phase, text,
                   lastQuery, debounceTimer, orphanTimers, procMsgs, cmds, msgs, list,
                   err, execCmd, nix>>

InitLoop ==
    /\ NewPluginManager
    /\ ret = [op |-> "new"]
    /\ input = <<>>
    /\ NoModel

\* Run returns when tea.Quit reaches the runtime; until then messages that
\* were under way are still handled, so every step stays possible.
NextLoop ==
    \/ StartupRegister
    \/ InitialModel
    \/ KeyPress
    \/ Backspace
    \/ OtherMsg
    \/ Resize
    \/ TimerFires
    \/ OrphanFires
    \/ ProcessQuery
    \/ RunQueryCmd
    \/ ResultsArrive
    \/ EscClear
    \/ EscQuit
    \/ Enter
    \/ CtrlC

SpecLoop == InitLoop /\ [][NextLoop]_vars

\* the same program, every timer recorded with the text it was armed for
InitLoopArmed ==
    /\ NewPluginManager
    /\ ret = [op |-> "new"]
    /\ input = <<>>
    /\ ModelNotBuilt
    /\ tracked = TRUE
    /\ NoBoot
    /\ NoScenario

SpecLoopArmed == InitLoopArmed /\ [][NextLoop]_vars

\* ------------------------------------------ the command Execute returned
MaxKeys == 3

\* the loop with a user who presses MaxKeys keys, the command of a selection
\* followed from Execute to its run by the runtime
InitLoopExec ==
    /\ NewPluginManager
    /\ ret = [op |-> "new"]
    /\ input = <<>>
    /\ ModelNotBuilt
    /\ tracked = FALSE
    /\ NoBoot
    /\ nix = Nil
    /\ keys = [left |-> MaxKeys, edited |-> FALSE]
    /\ execCmd = [effect |-> "nil", invoked |-> 0, pending |-> FALSE]

\* the runtime runs the command Update returned
RunExecCmd ==
    /\ Running
    /\ execCmd # Nil
    /\ execCmd.pending
    /\ execCmd' = [execCmd EXCEPT !.invoked = @ + 1, !.pending = FALSE]
    /\ UNCHANGED <<pmVars, ret, input, phase, text, lastQuery, debounceTimer, orphanTimers,
                   procMsgs, tracked, cmds, calls, msgs, list, err, quitting, ev, loader,
                   startup, nix, keys>>

NextLoopExec == NextLoop \/ RunExecCmd

SpecLoopExec == InitLoopExec /\ [][NextLoopExec]_vars

\* the same loop with a runtime that keeps going: a timer that is armed
\* expires, a processQueryMsg or a resultsMsg under way is delivered to
\* Update, a command handed to the runtime is run
Fairness ==
    /\ WF_vars(TimerFires)
    /\ WF_vars(OrphanFires)
    /\ WF_vars(ProcessQuery)
    /\ WF_vars(RunQueryCmd)
    /\ WF_vars(ResultsArrive)

MaxTyped == 2

\* a user who presses MaxTyped keys and then stops
InitLoopTyping ==
    /\ NewPluginManager
    /\ ret = [op |-> "new"]
    /\ input = <<>>
    /\ ModelNotBuilt
    /\ tracked = FALSE
    /\ NoBoot
    /\ nix = Nil
    /\ keys = [left |-> MaxTyped, edited |-> FALSE]
    /\ execCmd = [effect |-> "nil", invoked |-> 0, pending |-> FALSE]

SpecLoopFair == InitLoopTyping /\ [][NextLoopExec]_vars /\ Fairness

\* ------------------------------------ the command, one statement at a time
\* The runtime runs every command in a goroutine of its own.  The command
\* enters PluginManager.GetResults, which reads the current plugin ...
GetResultsBegins ==
    /\ Running
    /\ \E c \in BagToSet(cmds) :
        /\ cmds' = cmds (-) SetToBag({c})
        /\ calls' = calls (+) SetToBag({[forQuery |-> c.forQuery,
                                         active |-> GetCurrentPlugin]})
    /\ ev' = [type |-> "none"]
    /\ UNCHANGED <<pmVars, ret, input, tracked, loader, startup, phase, text, lastQuery,
                   debounceTimer, orphanTimers, procMsgs, msgs, list, err, quitting,
                   execCmd, nix, keys>>

\* ... and calls its GetResults; when that returns, the command returns the
\* resultsMsg
GetResultsReturns ==
    /\ Running
    /\ \E call \in BagToSet(calls) :
        /\ calls' = calls (-) SetToBag({call})
        /\ \E msg \in ResultsMsgs(call.active, call.forQuery) :
               msgs' = msgs (+) SetToBag({msg})
    /\ ev' = [type |-> "none"]
    /\ UNCHANGED <<pmVars, ret, input, tracked, loader, startup, phase, text, lastQuery,
                   debounceTimer, orphanTimers, procMsgs, cmds, list, err, quitting,
                   execCmd, nix, keys>>

NextLoopCalls ==
    \/ StartupRegister
    \/ InitialModel
    \/ KeyPress
    \/ Backspace
    \/ OtherMsg
    \/ Resize
    \/ TimerFires
    \/ OrphanFires
    \/ ProcessQuery
    \/ GetResultsBegins
    \/ GetResultsReturns
    \/ ResultsArrive
    \/ EscClear
    \/ EscQuit
    \/ Enter
    \/ CtrlC

SpecLoopCalls == InitLoopArmed /\ [][NextLoopCalls]_vars

\* ===================================================================
\* main.registerPlugins: which candidates become plugins
\* ===================================================================
MaxFlagLen == 3

MaxLoaded == 2

\* the characters of the -plugins flag: two letters, the comma, the space
FlagChars == {"a", "b", ",", SP}

FlagValues == UNION {[1..k -> FlagChars] : k \in 0..MaxFlagLen}

\* strings.SplitSeq(s, sep): the fields of s between separators
RECURSIVE Split(_, _)
Split(s, sep) ==
    IF \E i \in 1..Len(s) : s[i] = sep
    THEN LET i == CHOOSE i \in 1..Len(s) : s[i] = sep /\ \A j \in 1..(i - 1) : s[j] # sep
         IN  <<SubSeq(s, 1, i - 1)>> \o Split(SubSeq(s, i + 1, Len(s)), sep)
    ELSE <<s>>

\* the fields taken as they stand, without strings.TrimSpace
parseEnabledPluginsUntrimmed(flagValue) ==
    IF flagValue = <<>> THEN {}
    ELSE {Split(flagValue, ",")[i] : i \in 1..Len(Split(flagValue, ","))} \ {<<>>}

\* the set of flag names in the -plugins value
parseEnabledPlugins(flagValue) ==
    IF flagValue = <<>> THEN {}
    ELSE {TrimSpace(Split(flagValue, ",")[i]) : i \in 1..Len(Split(flagValue, ","))} \ {<<>>}

\* the built-in plugins of registerPlugins: mandatory, without a flag
builtInPlugins ==
    <<[name |-> "applauncher", kw |-> KwI, isDefault |-> TRUE, ver |-> 0,
       mandatory |-> TRUE, flag |-> <<>>],
      [name |-> "calculator", kw |-> KwW, isDefault |-> FALSE, ver |-> 0,
       mandatory |-> TRUE, flag |-> <<>>]>>

\* the plugins a plugin directory may hold: optional plugins on the flags
\* "a", "b" and "ab", one of them on the keyword of a built-in plugin, two
\* on the same keyword, one with the empty keyword, one without a flag
LoadablePlugins ==
    {[name |-> "nixshell", kw |-> KwWSI, isDefault |-> FALSE, ver |-> 0,
      mandatory |-> FALSE, flag |-> <<"a">>],
     [name |-> "hello", kw |-> KwW, isDefault |-> FALSE, ver |-> 0,
      mandatory |-> FALSE, flag |-> <<"b">>],
     [name |-> "wikipedia", kw |-> KwWSI, isDefault |-> FALSE, ver |-> 0,
      mandatory |-> FALSE, flag |-> <<"a", "b">>],
     [name |-> "unnamed", kw |-> <<>>, isDefault |-> FALSE, ver |-> 0,
      mandatory |-> FALSE, flag |-> <<"b">>],
     [name |-> "unflagged", kw |-> <<"w", "i">>, isDefault |-> FALSE, ver |-> 0,
      mandatory |-> FALSE, flag |-> <<>>]}

\* what yaegi.LoadPlugins may hand to registerPlugins
YaegiPlugins ==
    UNION {{s \in [1..k -> LoadablePlugins] : \A i, j \in 1..k : s[i] = s[j] => i = j} :
           k \in 0..MaxLoaded}

\* p.Metadata(): the constant part of a plugin
MetadataOf(p) == [f \in DOMAIN p \ {"ver"} |-> p[f]]

shouldRegister(p, flagValue) ==
    p.mandatory \/ p.flag \in parseEnabledPlugins(flagValue)

InitStartup ==
    /\ NewPluginManager
    /\ ret = [op |-> "new"]
    /\ input = <<>>
    /\ ModelNotBuilt
    /\ tracked = FALSE
    /\ loader = Nil
    /\ NoScenario
    /\ \E flagValue \in FlagValues, yaegiPlugins \in YaegiPlugins :
           startup = [flagValue |-> flagValue,
                      allPlugins |-> builtInPlugins \o yaegiPlugins,
                      next |-> 1,
                      fatal |-> FALSE]

\* one turn of the loop over allPlugins; logger.Fatal ends the process
registerPlugins ==
    /\ startup # Nil
    /\ ~startup.fatal
    /\ startup.next <= Len(startup.allPlugins)
    /\ LET p == startup.allPlugins[startup.next]
       IN  IF shouldRegister(p, startup.flagValue)
           THEN /\ RegisterPlugin(p)
                /\ startup' = [startup EXCEPT !.next = @ + 1, !.fatal = RegisterFails(p)]
           ELSE /\ RegisterMetadata(MetadataOf(p))
                /\ startup' = [startup EXCEPT !.next = @ + 1]
    /\ UNCHANGED <<input, phase, text, lastQuery, debounceTimer, orphanTimers, procMsgs,
                   tracked, cmds, calls, msgs, list, err, quitting, ev, loader, execCmd,
                   nix, keys>>

NextStartup == registerPlugins

SpecStartup == InitStartup /\ [][NextStartup]_vars

\* ===================================================================
\* yaegi.LoadPlugins: one plugin per file of the plugin directory
\* ===================================================================
MaxFiles == 3

\* what a directory entry may be: a directory, a file without the .go
\* suffix, a file that cannot be read, a source that fails to evaluate, one
\* without main.New, one whose New has another type, one whose New returns
\* nil, one whose New panics, and a valid plugin
FileKinds ==
    {"dir", "notgo", "unreadable", "evalerror", "nonew", "wrongshape", "nilresult",
     "newpanics", "valid"}

\* the kinds the loop leaves with "continue"
SkippedKinds ==
    {"dir", "notgo", "unreadable", "evalerror", "nonew", "wrongshape", "nilresult"}

Directories == UNION {[1..k -> FileKinds] : k \in 0..MaxFiles}

InitLoad ==
    /\ NewPluginManager
    /\ ret = [op |-> "new"]
    /\ input = <<>>
    /\ ModelNotBuilt
    /\ tracked = FALSE
    /\ startup = Nil
    /\ NoScenario
    /\ \E files \in Directories :
           loader = [files |-> files, next |-> 1, loadedPlugins |-> <<>>, state |-> "running"]

\* one turn of the loop over files: the plugin of a valid file is appended
\* (a loaded plugin is named by the position of its file); a panic inside
\* newFunc() is not recovered and leaves LoadPlugins
LoadFile ==
    /\ loader # Nil
    /\ loader.state = "running"
    /\ loader.next <= Len(loader.files)
    /\ LET file == loader.files[loader.next]
       IN  loader' =
               IF file \in SkippedKinds
               THEN [loader EXCEPT !.next = @ + 1]
               ELSE IF file = "newpanics"
               THEN [loader EXCEPT !.state = "panicked"]
               ELSE [loader EXCEPT !.next = @ + 1,
                                   !.loadedPlugins = Append(@, loader.next)]
    /\ UNCHANGED <<pmVars, ret, input, phase, text, lastQuery, debounceTimer,
                   orphanTimers, procMsgs, tracked, cmds, calls, msgs, list, err,
                   quitting, ev, startup, execCmd, nix, keys>>

\* return loadedPlugins, nil
LoadReturns ==
    /\ loader # Nil
    /\ loader.state = "running"
    /\ loader.next > Len(loader.files)
    /\ loader' = [loader EXCEPT !.state = "returned"]
    /\ UNCHANGED <<pmVars, ret, input, phase, text, lastQuery, debounceTimer,
                   orphanTimers, procMsgs, tracked, cmds, calls, msgs, list, err,
                   quitting, ev, startup, execCmd, nix, keys>>

NextLoad == LoadFile \/ LoadReturns

SpecLoad == InitLoad /\ [][NextLoad]_vars

\* ===================================================================
\* The Nix Shell plugin: results loaded in the background
\* ===================================================================
MaxProcs == 1

\* the identifiers of the results that stand for a state of the plugin
Placeholders ==
    {"nix_loading", "nix_internal_error", "nix_info_ready", "nix_no_results",
     "nix_cache_empty"}

\* a result made of a line of nix-locate: its command, the executable, the
\* package attribute
NixEntries ==
    <<[identifier |-> "nix shell nixpkgs#ripgrep -c rg", title |-> <<"r", "g">>,
       description |-> <<"r", "i", "p">>],
      [identifier |-> "nix shell nixpkgs#fd -c fd", title |-> <<"f", "d">>,
       description |-> <<"f", "d">>]>>

\* what a successful run of nix-locate leaves in the cache
NixCaches == {SubSeq(NixEntries, 1, n) : n \in 0..Len(NixEntries)}

\* the queries GetResults is called with
NixQueries == {<<>>, <<SP>>, <<"r">>, <<SP, "R">>, <<"x">>}

\* the identifiers Execute is called with: the placeholders, the commands
\* of the entries, and a text that is no "nix shell ... -c ..." command
NixIdentifiers ==
    Placeholders \cup {NixEntries[i].identifier : i \in 1..Len(NixEntries)} \cup {"rg"}

WellFormed(identifier) == \E i \in 1..Len(NixEntries) : NixEntries[i].identifier = identifier

\* strings.ToLower
ToLower(s) == [i \in 1..Len(s) |-> IF s[i] = "R" THEN "r" ELSE s[i]]

\* strings.Contains
Contains(s, substr) ==
    \E i \in 0..(Len(s) - Len(substr)) : SubSeq(s, i + 1, i + Len(substr)) = substr

Placeholder(identifier) == <<[identifier |-> identifier]>>

\* (the cache looked at before isLoading)
NixResultsCacheFirst(query) ==
    IF nix.err THEN Placeholder("nix_internal_error")
    ELSE IF nix.cachedResults # Nil /\ ToLower(TrimSpace(query)) # <<>>
    THEN SelectSeq(nix.cachedResults.items,
                   LAMBDA r : \/ Contains(ToLower(r.title), ToLower(TrimSpace(query)))
                              \/ Contains(ToLower(r.description), ToLower(TrimSpace(query))))
    ELSE Placeholder("nix_loading")

\* NixShellPlugin.GetResults: what it returns for the fields as they are
NixResults(query) ==
    LET searchQuery == ToLower(TrimSpace(query))
        filteredResults ==
            SelectSeq(nix.cachedResults.items,
                      LAMBDA r : \/ Contains(ToLower(r.title), searchQuery)
                                 \/ Contains(ToLower(r.description), searchQuery))
    IN  IF nix.err THEN Placeholder("nix_internal_error")
        ELSE IF nix.isLoading THEN Placeholder("nix_loading")
        ELSE IF searchQuery = <<>> THEN Placeholder("nix_info_ready")
        ELSE IF nix.cachedResults = Nil THEN Placeholder("nix_cache_empty")
        ELSE IF Len(filteredResults) = 0 THEN Placeholder("nix_no_results")
        ELSE filteredResults

\* New(): isLoading set, nothing cached, Init not yet called
InitNix ==
    /\ NewPluginManager
    /\ ret = [op |-> "new"]
    /\ input = <<>>
    /\ ModelNotBuilt
    /\ tracked = FALSE
    /\ NoBoot
    /\ execCmd = Nil
    /\ keys = Nil
    /\ nix = [pc |-> "new", err |-> FALSE, cachedResults |-> Nil, isLoading |-> TRUE,
              procs |-> 0, last |-> [op |-> "new"]]

NixUnchanged ==
    UNCHANGED <<pmVars, ret, input, phase, text, lastQuery, debounceTimer, orphanTimers,
                procMsgs, tracked, cmds, calls, msgs, list, err, quitting, ev, loader,
                startup, execCmd, keys>>

\* Init: nix-locate is not in PATH, or the loading goroutine is started
NixInit ==
    /\ nix # Nil
    /\ nix.pc = "new"
    /\ \/ nix' = [nix EXCEPT !.pc = "none", !.err = TRUE, !.isLoading = FALSE,
                             !.last = [op |-> "init"]]
       \/ nix' = [nix EXCEPT !.pc = "running", !.last = [op |-> "init"]]
    /\ NixUnchanged

\* loadNixLocateResults, cmd.Run() has returned: under the lock, the error, or
\* the results and no error
NixLocateReturns ==
    /\ nix # Nil
    /\ nix.pc = "running"
    /\ \/ nix' = [nix EXCEPT !.pc = "recorded", !.err = TRUE, !.cachedResults = Nil,
                             !.last = [op |-> "none"]]
       \/ \E results \in NixCaches :
              nix' = [nix EXCEPT !.pc = "recorded", !.err = FALSE,
                                 !.cachedResults = [items |-> results], !.last = [op |-> "none"]]
    /\ NixUnchanged

\* loadNixLocateResults, the deferred function that runs last
NixLoadExits ==
    /\ nix # Nil
    /\ nix.pc = "recorded"
    /\ nix' = [nix EXCEPT !.pc = "done", !.isLoading = FALSE, !.last = [op |-> "none"]]
    /\ NixUnchanged

\* GetResults, called once Init has been
NixGetResults ==
    /\ nix # Nil
    /\ nix.pc # "new"
    /\ \E query \in NixQueries :
           nix' = [nix EXCEPT !.last = [op |-> "getResults", query |-> query,
                                        results |-> NixResults(query)]]
    /\ NixUnchanged

\* Execute: nothing for a placeholder, an error recorded for a malformed
\* command, else cmd.Start(): the process started and tea.Quit, or an error
NixExecute ==
    /\ nix # Nil
    /\ nix.pc # "new"
    /\ \E identifier \in NixIdentifiers :
           IF identifier \in Placeholders
           THEN nix' = [nix EXCEPT !.last = [op |-> "execute", identifier |-> identifier,
                                             cmd |-> "other", started |-> FALSE]]
           ELSE IF ~WellFormed(identifier)
           THEN nix' = [nix EXCEPT !.err = TRUE,
                                   !.last = [op |-> "execute", identifier |-> identifier,
                                             cmd |-> "other", started |-> FALSE]]
           ELSE \/ /\ nix.procs < MaxProcs
                   /\ nix' = [nix EXCEPT !.procs = @ + 1,
                                         !.last = [op |-> "execute",
                                                   identifier |-> identifier,
                                                   cmd |-> "quit", started |-> TRUE]]
                \/ nix' = [nix EXCEPT !.err = TRUE,
                                      !.last = [op |-> "execute", identifier |-> identifier,
                                                cmd |-> "other", started |-> FALSE]]
    /\ NixUnchanged

NextNix ==
    \/ NixInit
    \/ NixLocateReturns
    \/ NixLoadExits
    \/ NixGetResults
    \/ NixExecute

SpecNix == InitNix /\ [][NextNix]_vars

\* ===================================================================
\* Routing properties
\* ===================================================================
\* k is a boundary match of the trimmed query t: t is k, or t is k, a space
\* and a remainder
BoundaryMatch(k, t) ==
    \/ t = k
    \/ Len(t) > Len(k) /\ SubSeq(t, 1, Len(k) + 1) = k \o <<SP>>

IsStrictPrefix(k, k2) ==
    Len(k) < Len(k2) /\ SubSeq(k2, 1, Len(k)) = k

\* t is k, one space and a remainder
HasRemainder(k, t) == Len(t) > Len(k) /\ SubSeq(t, 1, Len(k) + 1) = k \o <<SP>>

\* that remainder: t = k \o <<SP>> \o Remainder(k, t)
Remainder(k, t) == SubSeq(t, Len(k) + 2, Len(t))

\* the registered keywords that are boundary matches of q, trimmed
Matching(q) == {k \in DOMAIN plugins : BoundaryMatch(k, TrimSpace(q))}

\* the plugin routing should resolve: the longest matching keyword's, else
\* the default plugin
Resolved(q) ==
    IF Matching(q) = {} THEN defaultPlugin
    ELSE plugins[CHOOSE k \in Matching(q) : \A k2 \in Matching(q) : Len(k2) <= Len(k)]

Determined == ret.op = "determine"

Dispatched == ret.op = "getResults" /\ ~ret.err

\* C1: DetermineActivePlugin never selects a plugin whose keyword is a strict
\* prefix of another registered keyword that is a boundary match of the
\* trimmed query.
C1_LongestMatchWithBoundary ==
    Determined /\ ret.plugin # Nil =>
        \A k2 \in DOMAIN plugins :
            ~(IsStrictPrefix(ret.plugin.kw, k2) /\ BoundaryMatch(k2, TrimSpace(ret.query)))

\* "w" and "w i" both match the query and the longer one is selected
C1_Witness ==
    /\ Determined
    /\ ret.plugin # Nil
    /\ ret.plugin.kw = KwWSI
    /\ KwW \in Matching(ret.query)

\* C2: a registered keyword counts as matching exactly when it is a boundary
\* match of the trimmed query: a plugin other than the default is selected
\* only on a boundary match of its keyword, and whenever some registered
\* keyword is a boundary match the selected plugin's keyword is one.
C2_WordBoundaryMatching ==
    Determined =>
        /\ ret.plugin # Nil /\ ret.plugin # defaultPlugin =>
               ret.plugin.kw \in Matching(ret.query)
        /\ Matching(ret.query) # {} =>
               ret.plugin # Nil /\ ret.plugin.kw \in Matching(ret.query)

\* "wi" with "w" registered (and no "wi") goes to the default plugin
C2_Witness ==
    /\ Determined
    /\ TrimSpace(ret.query) = <<"w", "i">>
    /\ KwW \in DOMAIN plugins
    /\ defaultPlugin # Nil
    /\ defaultPlugin.kw = KwI
    /\ ret.plugin = defaultPlugin

\* C3: when no registered keyword is a boundary match of the query, the
\* default plugin is selected, and no plugin when there is no default.
C3_DefaultFallback ==
    Determined /\ Matching(ret.query) = {} => ret.plugin = defaultPlugin

\* a whitespace-only query leaves the "w" plugin for the default one
C3_Witness ==
    /\ Determined
    /\ ret.query # <<>>
    /\ TrimSpace(ret.query) = <<>>
    /\ ret.prevActive # Nil
    /\ ret.prevActive.kw = KwW
    /\ defaultPlugin # Nil
    /\ defaultPlugin.kw = KwI
    /\ ret.plugin = defaultPlugin

\* C4: switched is true exactly when the keyword of the plugin resolved for
\* the query differs from the keyword of the plugin active before the call;
\* the active reference changes only when switched; a second call with the
\* same query returns switched = false.
C4_SwitchedState ==
    Determined =>
        /\ ret.switched <=> KeywordOf(Resolved(ret.query)) # KeywordOf(ret.prevActive)
        /\ ~ret.switched => activePlugin = ret.prevActive
        /\ ret.plugin = activePlugin

C4_SecondCall ==
    Determined /\ ret'.op = "determine" /\ ret'.query = ret.query => ~ret'.switched

C4_Switched == []C4_SwitchedState /\ [][C4_SecondCall]_vars

\* the same query a second time: the first call switched, the second did not
C4_Witness ==
    /\ Determined
    /\ ~ret.switched
    /\ ret.query = input
    /\ ret.prevActive # Nil
    /\ ret.prevActive.kw = KwW
    /\ ret.prevActive # defaultPlugin
    /\ defaultPlugin # Nil

\* C5: with the non-default plugin that routing resolves for the query
\* active, GetResults hands the plugin the empty string when the trimmed
\* query is exactly the keyword, and the text after the keyword and the
\* separator when the trimmed query is the keyword, one space and a text.
C5_EffectiveQuery ==
    Dispatched /\ ~ret.plugin.isDefault /\ ret.plugin = Resolved(ret.query) =>
        LET t == TrimSpace(ret.query)
            k == ret.plugin.kw
        IN  /\ t = k => ret.pluginQuery = <<>>
            /\ HasRemainder(k, t) /\ Head(Remainder(k, t)) \notin WhiteSpace =>
                   ret.pluginQuery = Remainder(k, t)

\* "w i" routed to "w" yields "i"
C5_Witness ==
    /\ Dispatched
    /\ ~ret.plugin.isDefault
    /\ ret.plugin = Resolved(ret.query)
    /\ ret.plugin.kw = KwW
    /\ TrimSpace(ret.query) = <<"w", SP, "i">>
    /\ ret.pluginQuery = <<"i">>

\* C6 as stated: the default plugin receives the trimmed query.
C6_DefaultGetsTrimmed ==
    Dispatched /\ ret.plugin = defaultPlugin => ret.pluginQuery = TrimSpace(ret.query)

\* C6, amended: when the active plugin is the default plugin, GetResults
\* hands it the raw query unchanged, surrounding whitespace included.
C6_DefaultGetsRaw ==
    Dispatched /\ ret.plugin = defaultPlugin => ret.pluginQuery = ret.query

\* a query with surrounding whitespace reaches the default plugin untrimmed
C6_Witness ==
    /\ Dispatched
    /\ ret.plugin = defaultPlugin
    /\ ret.query # TrimSpace(ret.query)
    /\ TrimSpace(ret.query) # <<>>
    /\ ret.pluginQuery = ret.query

\* C7 as stated: for a non-default active plugin with keyword k and a trimmed
\* query k, space, r the plugin receives exactly r.
C7_ExactlyOneSeparator ==
    Dispatched /\ ~ret.plugin.isDefault =>
        (HasRemainder(ret.plugin.kw, TrimSpace(ret.query)) =>
            ret.pluginQuery = Remainder(ret.plugin.kw, TrimSpace(ret.query)))

\* C7, amended: for a non-default active plugin with keyword k and a trimmed
\* query k, space, r the plugin receives r with its leading whitespace
\* removed as well (the remainder is trimmed again).
C7_RemainderTrimmed ==
    Dispatched /\ ~ret.plugin.isDefault =>
        (HasRemainder(ret.plugin.kw, TrimSpace(ret.query)) =>
            ret.pluginQuery = TrimSpace(Remainder(ret.plugin.kw, TrimSpace(ret.query))))

\* "w", two separators and "i": the plugin receives "i"
C7_Witness ==
    /\ Dispatched
    /\ ~ret.plugin.isDefault
    /\ ret.plugin.kw = KwW
    /\ TrimSpace(ret.query) = <<"w", SP, TAB, "i">>
    /\ ret.pluginQuery = <<"i">>

\* C8: RegisterPlugin returns an error exactly when the keyword is empty or
\* already a key of the enabled-plugin map, and then leaves the map, the
\* sorted keywords, the default and the active reference as they were.
C8_Step ==
    ret'.op = "register" =>
        /\ ret'.err <=> (ret'.keyword = <<>> \/ ret'.keyword \in DOMAIN plugins)
        /\ ret'.err => UNCHANGED pmVars

C8_FailedRegisterChangesNothing == [][C8_Step]_vars

\* a second registration on the keyword of the default plugin has failed
C8_Witness ==
    /\ ret.op = "register"
    /\ ret.err
    /\ ret.keyword = KwW
    /\ plugins[KwW].isDefault
    /\ defaultPlugin = plugins[KwW]
    /\ Len(sortedKeywords) >= 2

\* ===================================================================
\* Staleness properties
\* ===================================================================
\* the step is the arrival of the result message msg
Arrives(msg) == msg \in BagToSet(msgs) /\ msgs' = msgs (-) SetToBag({msg})

ResultHandled == ev.type = "resultsMsg"

\* C9: while a typed (non-empty) text is current, the arrival of the result
\* of a query other than that text, the result for "a" with "ab" typed,
\* leaves the displayed list and the error as they are, in every
\* interleaving of keys, debounce firings and arrivals.
C9_Step ==
    \A msg \in BagToSet(msgs) :
        Arrives(msg) /\ text # <<>> /\ msg.forQuery # text =>
            list' = list /\ err' = err

C9_StaleUnderTyping == [][C9_Step]_vars

\* a result has arrived with "ww" typed and awaited, and has been discarded:
\* it was the result of another query
C9_Witness ==
    /\ ResultHandled
    /\ ~ev.applied
    /\ text = <<"w", "w">>
    /\ lastQuery = text

\* C10 as stated: a result message is discarded whenever its recorded query
\* is not the text in the query box, and applied only when the two are equal.
C10_Step ==
    \A msg \in BagToSet(msgs) :
        Arrives(msg) =>
            /\ msg.forQuery # text => ~ev'.applied
            /\ ev'.applied => msg.forQuery = text

C10_GuardAgainstText == [][C10_Step]_vars

\* ===================================================================
\* Router invariants
\* ===================================================================
\* C11 as stated: in every state in which a plugin has been registered, after
\* any sequence of RegisterPlugin, RegisterMetadata, DetermineActivePlugin and
\* UpdatePluginInstance calls, the plugin GetCurrentPlugin returns is set.
C11_ActiveSetOnceRegistered == DOMAIN plugins # {} => GetCurrentPlugin # Nil

\* C11, amended: once a default plugin is registered, the active reference
\* is set, and so is the plugin GetCurrentPlugin returns, after any sequence
\* of RegisterPlugin, RegisterMetadata, DetermineActivePlugin and
\* UpdatePluginInstance calls.
C11_ActiveSetOnceDefault ==
    defaultPlugin # Nil => activePlugin # Nil /\ GetCurrentPlugin # Nil

\* a query no keyword matches has taken the "w" plugin back to the default
\* one, with metadata registered and the default instance written back
C11_Witness ==
    /\ ret.op = "determine"
    /\ ret.switched
    /\ ret.prevActive # Nil
    /\ ret.prevActive.kw = KwW
    /\ defaultPlugin # Nil
    /\ activePlugin = defaultPlugin
    /\ DOMAIN disabledPluginsMetadata # {}
    /\ defaultPlugin.ver > 0

\* the keywords of the registered plugins that declare themselves default
DeclaredDefaults == {k \in DOMAIN plugins : plugins[k].isDefault}

\* C12 as stated: at most one registered plugin has isDefault = true, exactly
\* one once a default has been registered, and the default reference holds it.
C12_AtMostOneDefault ==
    /\ Cardinality(DeclaredDefaults) <= 1
    /\ defaultPlugin # Nil =>
           DeclaredDefaults = {defaultPlugin.kw} /\ plugins[defaultPlugin.kw] = defaultPlugin

\* C12, amended: several registered plugins may have isDefault = true; the
\* default reference is unset exactly while none has, otherwise it holds one
\* of them, and a successful registration of a plugin with isDefault = true
\* makes that plugin the default, any other registration leaves it.
C12_DefaultState ==
    /\ defaultPlugin = Nil <=> DeclaredDefaults = {}
    /\ defaultPlugin # Nil =>
           /\ defaultPlugin.kw \in DeclaredDefaults
           /\ plugins[defaultPlugin.kw] = defaultPlugin

C12_Step ==
    ret'.op = "register" =>
        defaultPlugin' = IF ~ret'.err /\ plugins'[ret'.keyword].isDefault
                         THEN plugins'[ret'.keyword]
                         ELSE defaultPlugin

C12_LatestDefault == []C12_DefaultState /\ [][C12_Step]_vars

\* a second default plugin has been registered and has replaced the first
C12_Witness ==
    /\ ret.op = "register"
    /\ ~ret.err
    /\ ret.keyword = KwW
    /\ DeclaredDefaults = {KwI, KwW}
    /\ defaultPlugin = plugins[KwW]
    /\ activePlugin = plugins[KwI]

\* C13: after any sequence of RegisterPlugin calls, failed ones included,
\* sortedKeywords holds every key of the enabled-plugin map once and nothing
\* else, in non-increasing keyword length.
C13_SortedKeywords ==
    /\ Len(sortedKeywords) = Cardinality(DOMAIN plugins)
    /\ {sortedKeywords[i] : i \in 1..Len(sortedKeywords)} = DOMAIN plugins
    /\ \A i, j \in 1..Len(sortedKeywords) :
           i < j => Len(sortedKeywords[i]) >= Len(sortedKeywords[j])

\* the longest keyword was registered last, after a failed registration or
\* not, and stands first
C13_Witness ==
    /\ ret.op = "register"
    /\ ~ret.err
    /\ ret.keyword = KwWSI
    /\ Len(sortedKeywords) = 3
    /\ sortedKeywords[1] = KwWSI

\* ===================================================================
\* Selection and Escape
\* ===================================================================
\* Update has handled Enter and called Execute
Executed == ev.type = "enter" /\ ev.executed

\* C14 as stated: the identifier Execute is called with is the selected
\* item's, and the plugin that receives the call is the plugin whose
\* GetResults produced the item.
C14_IdentifierRoundTrip ==
    Executed => ev.id = list[1] /\ ev.plugin # Nil /\ ev.plugin.kw = ev.id.by

\* the step is Update handling the Esc key
EscHandled == ev'.type = "esc"

\* C15: Esc on a non-empty text stops and drops the pending debounce timer
\* (it neither fires nor stays behind armed), empties the text, makes the
\* default plugin the active one and leaves quitting as it is; Esc on an
\* empty text sets quitting and returns tea.Quit.
C15_Step ==
    EscHandled =>
        /\ debounceTimer' = "nil"
        /\ orphanTimers' = orphanTimers
        /\ procMsgs' = procMsgs
        /\ IF text # <<>>
           THEN /\ text' = <<>>
                /\ activePlugin' # Nil
                /\ activePlugin' = defaultPlugin'
                /\ quitting' = quitting
                /\ ~ev'.quit
           ELSE /\ text' = text
                /\ quitting'
                /\ ev'.quit

C15_EscapeHandling == [][C15_Step]_vars

\* Esc with "w" typed and its timer armed: nothing is left to fire
C15_Witness ==
    /\ ev.type = "esc"
    /\ ~ev.quit
    /\ ev.armed
    /\ lastQuery = <<"w">>
    /\ text = <<>>
    /\ debounceTimer = "nil"
    /\ orphanTimers = EmptyBag
    /\ procMsgs = EmptyBag
    /\ activePlugin = defaultPlugin
    /\ ~quitting

\* C16 as stated: when Esc clears a text while a plugin P other than the
\* default one is active, clearSummaryMsg goes to P.
C16_Step ==
    EscHandled /\ text # <<>> /\ GetCurrentPlugin # defaultPlugin =>
        ev'.notified = KeywordOf(GetCurrentPlugin)

C16_NotifiesPreviousPlugin == [][C16_Step]_vars

\* the step is Update handling the Enter key
EnterHandled == ev'.type = "enter"

\* C17: Enter drops the debounce timer stopped; with a timer pending the
\* routing is first recomputed for the current text; Execute is called when
\* an item is then selected, and only then, on the active plugin and with
\* that item's identifier; with no timer pending the routing is left alone.
C17_AfterEnter ==
    ev.type = "enter" =>
        /\ debounceTimer = "nil"
        /\ ev.pending => KeywordOf(activePlugin) = KeywordOf(DeterminedPlugin(text))
        /\ ev.executed <=> list # <<>>
        /\ ev.executed => ev.id = list[1] /\ ev.plugin = GetCurrentPlugin

C17_Step ==
    EnterHandled =>
        /\ orphanTimers' = orphanTimers
        /\ procMsgs' = procMsgs
        /\ text' = text
        /\ debounceTimer = "nil" => activePlugin' = activePlugin /\ list' = list /\ cmds' = cmds

C17_Selection == []C17_AfterEnter /\ [][C17_Step]_vars

\* Enter with a timer pending and an item on display: the flush has left the
\* routing on the default plugin and Execute has been called
C17_Witness ==
    /\ ev.type = "enter"
    /\ ev.pending
    /\ ev.executed
    /\ text = <<"w", "w">>
    /\ ev.plugin = defaultPlugin

\* ===================================================================
\* Debounce and dispatch
\* ===================================================================
\* C18 as stated: a step that changes the text leaves the plugin routing
\* resolves for the new text active, the earlier timer cancelled and a new
\* timer armed.
C18_Step ==
    text' # text =>
        /\ (KeywordOf(activePlugin) = KeywordOf(DeterminedPlugin(text)))'
        /\ debounceTimer' = "armed"
        /\ orphanTimers' = orphanTimers

C18_RoutedOnTextChange == [][C18_Step]_vars

\* the step dispatches a GetResults command
Dispatches == BagCardinality(cmds') > BagCardinality(cmds)

\* the step is Update handling the processQueryMsg of a timer armed for armedFor
Processes(armedFor) ==
    armedFor \in BagToSet(procMsgs) /\ procMsgs' = procMsgs (-) SetToBag({armedFor})

ProcessHandled == \E armedFor \in BagToSet(procMsgs) : Processes(armedFor)

\* C19 as stated: only the handling of processQueryMsg dispatches GetResults.
C19_OnlyDebounceStep == Dispatches => ProcessHandled

C19_OnlyDebounce == [][C19_OnlyDebounceStep]_vars

\* C19, amended: GetResults is dispatched only by the handling of
\* processQueryMsg with a timer pending, by Esc on a non-empty text and by
\* Enter with a timer pending and no item selected after the flush; no
\* resize, result arrival, text edit or other message dispatches it.
C19_Step ==
    Dispatches =>
        \/ ProcessHandled /\ debounceTimer # "nil"
        \/ ev'.type = "esc" /\ text # <<>>
        \/ ev'.type = "enter" /\ debounceTimer # "nil" /\ ~ev'.executed

C19_DispatchTriggers == [][C19_Step]_vars

\* Enter has flushed the timer armed for "w" and dispatched GetResults("w")
C19_Witness ==
    /\ ev.type = "enter"
    /\ ev.pending
    /\ ~ev.executed
    /\ text = <<"w">>
    /\ cmds = SetToBag({[forQuery |-> text]})
    /\ procMsgs = EmptyBag

\* C20 as stated: the GetResults call the handling of a processQueryMsg
\* dispatches carries the text its timer was armed for.
C20_Step ==
    \A armedFor \in BagToSet(procMsgs) :
        Processes(armedFor) /\ Dispatches =>
            cmds' = cmds (+) SetToBag({[forQuery |-> armedFor]})

C20_CarriesArmedText == [][C20_Step]_vars

\* the debounce timers that are armed and have not been stopped
ArmedTimers ==
    BagCardinality(orphanTimers) + (IF debounceTimer = "armed" THEN 1 ELSE 0)

\* C21 as stated: every text change, Esc and Enter stops the pending timer
\* (a stopped timer sends nothing), so at most one armed, un-stopped debounce
\* timer exists in every reachable state.
C21_AtMostOneArmed == ArmedTimers <= 1

\* ===================================================================
\* Plugin calls and their effects
\* ===================================================================
\* the last step called a plugin's Init, Update or Execute, which returned
\* effect (told apart when history is recorded)
Returned(effect) == "effect" \in DOMAIN ev /\ ev.effect = effect

\* C23 as stated: after a step in which a plugin's Execute, Update or Init
\* returned tea.Quit, the model is quitting.
C23_QuitEffectSetsQuitting == Returned("quit") => quitting

\* the plugin GetResults calls under way: a command is inside a plugin
PluginCalls == {call \in BagToSet(calls) : call.active # Nil}

\* a plugin GetResults call is under way before the step and after it
CallSpansStep == \E call \in PluginCalls : CopiesIn(call, calls') >= CopiesIn(call, calls)

\* the step called a plugin's Update, Execute or Init
CallsPlugin == "effect" \in DOMAIN ev'

\* C22 as stated: no two plugin GetResults calls are under way together,
\* and no step taken while one is under way calls a plugin's Update or
\* Execute or writes the active-plugin reference.
C22_Step ==
    CallSpansStep => ~CallsPlugin /\ activePlugin' = activePlugin

C22_NoOverlap ==
    /\ [](\A call \in PluginCalls : BagCardinality(calls) = 1)
    /\ [][C22_Step]_vars

\* ===================================================================
\* Disabled plugins and the router's frame
\* ===================================================================
\* the keywords registered as disabled metadata only
DisabledOnly == DOMAIN disabledPluginsMetadata \ DOMAIN plugins

\* DetermineActivePlugin has just routed a query that boundary-matches k
RoutedOnto(k) == ret.op = "determine" /\ BoundaryMatch(k, TrimSpace(ret.query))

\* C24 as stated: a query that boundary-matches a keyword registered only as
\* disabled metadata is not routed to a plugin of that keyword: it resolves
\* to the default plugin, and the plugin GetResults and Execute go to is
\* never a disabled one.
C24_DisabledResolvesToDefault ==
    /\ KeywordOf(GetCurrentPlugin) \notin DisabledOnly
    /\ \A k \in DisabledOnly :
           RoutedOnto(k) => KeywordOf(ret.plugin) # k /\ ret.plugin = defaultPlugin

\* C24, amended: such a query is not routed to a plugin of that keyword: it
\* resolves as the enabled keywords alone have it, to the default plugin
\* when none of them boundary-matches it; the plugin GetResults and Execute
\* go to is never a disabled one.
C24_DisabledNeverRouted ==
    /\ KeywordOf(GetCurrentPlugin) \notin DisabledOnly
    /\ \A k \in DisabledOnly :
           RoutedOnto(k) =>
               /\ KeywordOf(ret.plugin) # k
               /\ IF \E k2 \in DOMAIN plugins : BoundaryMatch(k2, TrimSpace(ret.query))
                  THEN /\ ret.plugin = plugins[ret.plugin.kw]
                       /\ BoundaryMatch(ret.plugin.kw, TrimSpace(ret.query))
                  ELSE ret.plugin = defaultPlugin

\* the query "w" has left the "w i" plugin for the default one: "w" is the
\* keyword of disabled metadata only
C24_Witness ==
    /\ RoutedOnto(KwW)
    /\ ret.query = KwW
    /\ KwW \in DisabledOnly
    /\ ret.switched
    /\ KeywordOf(ret.prevActive) = KwWSI
    /\ defaultPlugin # Nil
    /\ ret.plugin = defaultPlugin

\* ===================================================================
\* Startup registration
\* ===================================================================
\* the flag name is an item of the comma-separated list: a stretch of the
\* value between two commas (or the ends) that is the name once trimmed
Listed(flag, flagValue) ==
    /\ flag # <<>>
    /\ \E a \in 1..Len(flagValue), b \in 1..Len(flagValue) :
           /\ a <= b
           /\ a = 1 \/ flagValue[a - 1] = ","
           /\ b = Len(flagValue) \/ flagValue[b + 1] = ","
           /\ \A i \in a..b : flagValue[i] # ","
           /\ TrimSpace(SubSeq(flagValue, a, b)) = flag

Enabled(p) == p.mandatory \/ Listed(p.flag, startup.flagValue)

\* the candidates the loop has dealt with, by position
Processed == 1..(startup.next - 1)

StartupCompleted ==
    startup # Nil /\ ~startup.fatal /\ startup.next > Len(startup.allPlugins)

\* p is an instance of the enabled map
Placed(p) == p.kw \in DOMAIN plugins /\ plugins[p.kw] = p

\* the metadata of p is in the disabled map
Recorded(p) ==
    p.kw \in DOMAIN disabledPluginsMetadata /\ disabledPluginsMetadata[p.kw] = MetadataOf(p)

\* C25 as stated: once startup has gone through the candidates, a candidate
\* is an enabled instance exactly when it is mandatory or its flag is
\* listed, and every other candidate has its metadata in the disabled map
\* and is no instance.
C25_OthersRecorded ==
    StartupCompleted =>
        \A i \in 1..Len(startup.allPlugins) :
            LET p == startup.allPlugins[i]
            IN  IF Enabled(p) THEN Placed(p) ELSE ~Placed(p) /\ Recorded(p)

\* C25: while startup has not been ended by a failed registration, a
\* candidate dealt with is an enabled instance exactly when it is mandatory
\* or its flag is listed; every other one is no instance, and its metadata is
\* in the disabled map unless its keyword is empty, belongs to an enabled
\* plugin, or was taken by a later disabled candidate; the disabled map holds
\* nothing else.
C25_RegisteredIffEnabled ==
    (startup # Nil /\ ~startup.fatal) =>
        /\ \A i \in Processed :
               LET p == startup.allPlugins[i]
               IN  /\ Placed(p) <=> Enabled(p)
                   /\ ~Enabled(p) =>
                          \/ Recorded(p)
                          \/ p.kw = <<>>
                          \/ p.kw \in DOMAIN plugins
                          \/ \E j \in Processed :
                                 /\ j > i
                                 /\ ~Enabled(startup.allPlugins[j])
                                 /\ startup.allPlugins[j].kw = p.kw
        /\ \A k \in DOMAIN plugins : \E i \in Processed : startup.allPlugins[i] = plugins[k]
        /\ \A k \in DOMAIN disabledPluginsMetadata :
               \E i \in Processed :
                   /\ ~Enabled(startup.allPlugins[i])
                   /\ disabledPluginsMetadata[k] = MetadataOf(startup.allPlugins[i])

\* startup completed with " a" as the flag value: the plugin on the flag "a"
\* is enabled, the disabled one on a built-in plugin's keyword is not recorded
C25_Witness ==
    /\ StartupCompleted
    /\ startup.flagValue = <<SP, "a">>
    /\ \E i, j \in Processed :
           /\ startup.allPlugins[i].name = "nixshell"
           /\ Placed(startup.allPlugins[i])
           /\ startup.allPlugins[j].name = "hello"
           /\ ~Recorded(startup.allPlugins[j])
           /\ ~Placed(startup.allPlugins[j])

\* ===================================================================
\* Loader isolation
\* ===================================================================
\* the positions of the valid files among the first n, in order
RECURSIVE ValidFiles(_, _)
ValidFiles(files, n) ==
    IF n = 0 THEN <<>>
    ELSE IF files[n] = "valid" THEN Append(ValidFiles(files, n - 1), n)
    ELSE ValidFiles(files, n - 1)

\* C26: no file aborts LoadPlugins, the files gone through have left exactly
\* the plugins of the valid ones, in order, and LoadPlugins returns those of
\* the whole directory.
C26_LoaderIsolation ==
    loader # Nil =>
        /\ loader.state # "panicked"
        /\ loader.loadedPlugins = ValidFiles(loader.files, loader.next - 1)
        /\ loader.state = "returned" =>
               loader.loadedPlugins = ValidFiles(loader.files, Len(loader.files))

\* ===================================================================
\* InitPlugins
\* ===================================================================
InitsOf(p) == {i \in 1..Len(ret.inits) : ret.inits[i] = p}

\* the plugins whose Init returned a command, in call order
RECURSIVE Commanding(_)
Commanding(n) ==
    IF n = 0 THEN <<>>
    ELSE IF ret.effects[n] # "nil" THEN Append(Commanding(n - 1), ret.inits[n])
    ELSE Commanding(n - 1)

\* C27: an InitPlugins call has called Init once on every instance of the
\* enabled map and on nothing else, the default plugin's first, and has
\* returned the commands that were not nil as one batch (nil when there is
\* none).
C27_InitOnceDefaultFirst ==
    ret.op = "initPlugins" =>
        /\ \A k \in DOMAIN plugins : Cardinality(InitsOf(plugins[k])) = 1
        /\ Len(ret.inits) = Cardinality(DOMAIN plugins)
        /\ defaultPlugin # Nil => ret.inits[1] = defaultPlugin
        /\ IF Commanding(Len(ret.inits)) = <<>>
           THEN ret.cmd = Nil
           ELSE ret.cmd = [batch |-> Commanding(Len(ret.inits))]

\* InitPlugins over three plugins, two of which declare isDefault: the
\* default plugin (the later one) first, two commands in the batch
C27_Witness ==
    /\ ret.op = "initPlugins"
    /\ Cardinality(DOMAIN plugins) = 3
    /\ Cardinality({k \in DOMAIN plugins : plugins[k].isDefault}) = 2
    /\ KeywordOf(defaultPlugin) = KwW
    /\ KeywordOf(ret.inits[1]) = KwW
    /\ ret.cmd # Nil
    /\ Len(ret.cmd.batch) = 2
    /\ ret.effects[1] = "nil"

\* ===================================================================
\* UpdatePluginInstance, RegisterMetadata: what they change
\* ===================================================================
UpdateHandled == ret'.op = "update"

\* the reference after a write-back of p under a registered keyword
Follows(ref, p) == IF ref # Nil /\ KeywordOf(ref) = KeywordOf(p) THEN p ELSE ref

C28_Step ==
    UpdateHandled =>
        LET p == ret'.plugin
        IN  /\ UNCHANGED <<sortedKeywords, disabledPluginsMetadata>>
            /\ IF p # Nil /\ KeywordOf(p) \in DOMAIN plugins
               THEN /\ DOMAIN plugins' = DOMAIN plugins
                    /\ \A k \in DOMAIN plugins :
                           plugins'[k] = IF k = KeywordOf(p) THEN p ELSE plugins[k]
                    /\ activePlugin' = Follows(activePlugin, p)
                    /\ defaultPlugin' = Follows(defaultPlugin, p)
               ELSE UNCHANGED <<plugins, activePlugin, defaultPlugin>>

\* C28: UpdatePluginInstance(p) with p's keyword a key of the enabled map
\* makes the entry p, and the active and the default reference p exactly
\* when their keyword is p's; with p nil, or its keyword empty or not
\* registered, it changes nothing; sortedKeywords and the disabled map never
\* change.
C28_UpdateFrame == [][C28_Step]_vars

\* a write-back of the default plugin while another plugin is active: the
\* entry and the default reference are the new instance, the active
\* reference is as before
C28_Witness ==
    /\ ret.op = "update"
    /\ ret.plugin # Nil
    /\ KeywordOf(ret.plugin) \in DOMAIN plugins
    /\ ret.plugin.ver = 1
    /\ plugins[KeywordOf(ret.plugin)] = ret.plugin
    /\ defaultPlugin = ret.plugin
    /\ activePlugin # Nil
    /\ KeywordOf(activePlugin) # KeywordOf(ret.plugin)
    /\ activePlugin.ver = 0

MetadataHandled == ret'.op = "registerMetadata"

C29_Step ==
    MetadataHandled =>
        LET m == ret'.metadata
        IN  /\ UNCHANGED <<plugins, sortedKeywords, defaultPlugin, activePlugin>>
            /\ IF m.kw = <<>>
               THEN ret'.err /\ UNCHANGED disabledPluginsMetadata
               ELSE IF m.kw \in DOMAIN plugins
               THEN ~ret'.err /\ UNCHANGED disabledPluginsMetadata
               ELSE /\ ~ret'.err
                    /\ DOMAIN disabledPluginsMetadata' = DOMAIN disabledPluginsMetadata \cup {m.kw}
                    /\ \A k \in DOMAIN disabledPluginsMetadata' :
                           disabledPluginsMetadata'[k] =
                               IF k = m.kw THEN m ELSE disabledPluginsMetadata[k]

\* C29: RegisterMetadata(m) returns no error and leaves the disabled map as
\* it is when m's keyword is a key of the enabled map, returns an error and
\* changes nothing when the keyword is empty, and records m under its keyword
\* otherwise; the enabled map, sortedKeywords and the default and active
\* references never change.
C29_MetadataFrame == [][C29_Step]_vars

\* RegisterMetadata on the keyword of an enabled plugin, with another
\* keyword already recorded: no error, nothing recorded
C29_Witness ==
    /\ ret.op = "registerMetadata"
    /\ ~ret.err
    /\ ret.metadata.kw = KwW
    /\ KwW \in DOMAIN plugins
    /\ KwW \notin DOMAIN disabledPluginsMetadata
    /\ KwWSI \in DOMAIN disabledPluginsMetadata

\* ===================================================================
\* Errors of GetResults
\* ===================================================================
\* the step is Update handling a key that changes the text
TextEdited == text' # text /\ ev'.type = "none"

C30_Step ==
    /\ \A msg \in BagToSet(msgs) :
           Arrives(msg) /\ msg.forQuery = lastQuery /\ msg.err =>
               /\ quitting' = quitting
               /\ phase' = phase
               /\ list' = <<>>
               /\ err'
    /\ err /\ TextEdited =>
           /\ debounceTimer' = "armed"
           /\ lastQuery' = text'
           /\ ~Dispatches
           /\ quitting' = quitting
    /\ err /\ ProcessHandled /\ debounceTimer # "nil" =>
           /\ CopiesIn([forQuery |-> lastQuery], cmds')
                  = CopiesIn([forQuery |-> lastQuery], cmds) + 1
           /\ ~err'
           /\ quitting' = quitting

\* C30: the arrival of a result for the latest query that carries an error
\* leaves quitting as it is, empties the list and records the error; with
\* the error recorded a text change still arms the debounce timer without
\* dispatching, and the timer's message still dispatches GetResults for the
\* latest query and clears the error.
C30_ErrorKeepsLoop == [][C30_Step]_vars

\* an error has arrived for the text on display while the debounce timer
\* armed by the last edit is still pending
C30_Witness ==
    /\ ev.type = "resultsMsg"
    /\ ev.applied
    /\ err
    /\ list = <<>>
    /\ ~quitting
    /\ text # <<>>
    /\ debounceTimer = "armed"

\* ===================================================================
\* One instance per keyword
\* ===================================================================
\* the reference, when set, is the instance the map holds under its keyword
Canonical(ref) ==
    ref # Nil => KeywordOf(ref) \in DOMAIN plugins /\ plugins[KeywordOf(ref)] = ref

\* C31: after any sequence of RegisterPlugin, DetermineActivePlugin and
\* UpdatePluginInstance calls (the write-back every loop step that calls a
\* plugin's Update goes through), the active and the default reference, when
\* set, are the instance the enabled map holds under their keyword.
C31_CanonicalInstance == Canonical(activePlugin) /\ Canonical(defaultPlugin)

\* a new instance of the plugin that is both active and default has been
\* written back: map entry and both references are that instance
C31_Witness ==
    /\ ret.op = "update"
    /\ ret.plugin # Nil
    /\ ret.plugin.ver = 1
    /\ activePlugin = ret.plugin
    /\ defaultPlugin = ret.plugin
    /\ plugins[KeywordOf(ret.plugin)] = ret.plugin
    /\ Cardinality(DOMAIN plugins) >= 2

\* ===================================================================
\* The command of a selection
\* ===================================================================
\* C32: the command Execute returned for a selection, when it is not nil, has
\* been invoked once by Update while the runtime has yet to run it, and
\* twice once the runtime has run it; a nil command is never invoked.
C32_InvokedTwice ==
    execCmd # Nil =>
        IF execCmd.effect = "nil"
        THEN execCmd.invoked = 0 /\ ~execCmd.pending
        ELSE execCmd.invoked = (IF execCmd.pending THEN 1 ELSE 2)

\* a command other than tea.Quit, returned by Execute for an item selected
\* with Enter, has been run by the runtime: two invocations
C32_Witness ==
    /\ execCmd # Nil
    /\ execCmd.effect = "other"
    /\ ~execCmd.pending
    /\ execCmd.invoked = 2
    /\ ~quitting

\* ===================================================================
\* The placeholder of the Nix Shell plugin
\* ===================================================================
\* the goroutine Init started has not run to its end
LoadUnderWay == nix.pc \in {"running", "recorded"}

NixAnswered == nix # Nil /\ nix.last.op = "getResults"

\* the results are entries of the cache
FromCache ==
    \A i \in 1..Len(nix.last.results) :
        nix.last.results[i].identifier \notin Placeholders

\* Execute on a placeholder starts no process and does not return tea.Quit
PlaceholderInert ==
    nix # Nil /\ nix.last.op = "execute" /\ nix.last.identifier \in Placeholders =>
        ~nix.last.started /\ nix.last.cmd # "quit"

\* once the load is over: isLoading is false, and GetResults answers with
\* the recorded error, or from the cache
AfterLoad ==
    nix # Nil /\ nix.pc \in {"done", "none"} =>
        /\ ~nix.isLoading
        /\ NixAnswered =>
               IF nix.err THEN nix.last.results = Placeholder("nix_internal_error")
               ELSE /\ nix.cachedResults # Nil
                    /\ nix.last.results # Placeholder("nix_loading")
                    /\ \/ FromCache
                             /\ Len(nix.last.results) > 0
                             /\ \A i \in 1..Len(nix.last.results) :
                                    \E j \in 1..Len(nix.cachedResults.items) :
                                        nix.cachedResults.items[j] = nix.last.results[i]
                       \/ nix.last.results \in
                              {Placeholder("nix_info_ready"), Placeholder("nix_no_results")}

\* C33 as stated: while the load is under way GetResults returns the one
\* placeholder "nix_loading"; once it is over isLoading is false and the
\* answers come from the cache or the error; a placeholder executes nothing.
C33_LoadingPlaceholder ==
    /\ NixAnswered /\ LoadUnderWay => nix.last.results = Placeholder("nix_loading")
    /\ AfterLoad
    /\ PlaceholderInert

\* C33: while the load is under way GetResults returns one placeholder and
\* no entry of the cache: "nix_loading" as long as no error is recorded,
\* "nix_internal_error" once one is; once the load is over isLoading is
\* false (and once false it stays false) and the answers come from the cache
\* or the error; a placeholder executes nothing.
C33_State ==
    /\ NixAnswered /\ LoadUnderWay =>
           nix.last.results =
               IF nix.err THEN Placeholder("nix_internal_error")
               ELSE Placeholder("nix_loading")
    /\ AfterLoad
    /\ PlaceholderInert

C33_Step == nix # Nil /\ ~nix.isLoading => ~nix'.isLoading

C33_PlaceholderOrError == []C33_State /\ [][C33_Step]_vars

\* GetResults called for "r" while the goroutine has stored two entries and
\* has yet to clear isLoading: the placeholder, not the matching entry
C33_Witness ==
    /\ NixAnswered
    /\ nix.pc = "recorded"
    /\ nix.isLoading
    /\ ~nix.err
    /\ nix.cachedResults # Nil
    /\ Len(nix.cachedResults.items) = 2
    /\ nix.last.query = <<"r">>
    /\ nix.last.results = Placeholder("nix_loading")

\* ===================================================================
\* Routing by the set of plugins
\* ===================================================================
\* what the set of registered plugins alone makes of q: the plugin of the
\* longest keyword that is a boundary match, else the plugin that declares
\* itself default
RoutedBySet(q) ==
    IF Matching(q) = {}
    THEN plugins[CHOOSE k \in DeclaredDefaults : TRUE]
    ELSE plugins[CHOOSE k \in Matching(q) : \A k2 \in Matching(q) : Len(k2) <= Len(k)]

\* C34: with exactly one registered plugin that declares itself default,
\* the plugin DetermineActivePlugin selects is a function of the query and
\* of the set of registered plugins: it is the same in every state with that
\* set, whatever the order of registration and whatever the order the sort
\* left among keywords of equal length.
C34_RoutingBySet ==
    Determined /\ Cardinality(DeclaredDefaults) = 1 => ret.plugin = RoutedBySet(ret.query)

\* three plugins, the two keywords of length one in the order "i", "w",
\* and a query routed to the second of them
C34_Witness ==
    /\ Determined
    /\ Cardinality(DeclaredDefaults) = 1
    /\ sortedKeywords = <<KwWSI, KwI, KwW>>
    /\ TrimSpace(ret.query) = KwW
    /\ KeywordOf(ret.plugin) = KwW
    /\ ~plugins[KwW].isDefault

\* ===================================================================
\* The plugin behind an accepted result
\* ===================================================================
\* Update has just applied a result message that carries an item
AcceptedItem == ev.type = "resultsMsg" /\ ev.applied /\ list # <<>>

\* C35 as stated: the items of every result message the loop applies were
\* computed by the plugin routing resolves for the query the message
\* records (which, the message being applied, is lastQuery).
C35_AcceptedFromResolved ==
    AcceptedItem => list[1].by = KeywordOf(Resolved(lastQuery))

\* ===================================================================
\* Results after Escape and after Enter
\* ===================================================================
\* C37 as stated, the part its eventual display rests on: with the text
\* emptied (by Escape, or by the last Backspace), an arriving result message
\* for the empty query is applied and not rejected as stale, and a result
\* message for any other text, the text before the Escape included, is not
\* applied.
C37_Step ==
    \A msg \in BagToSet(msgs) :
        Arrives(msg) /\ text = <<>> => (ev'.applied <=> msg.forQuery = <<>>)

C37_EmptyQueryResult == [][C37_Step]_vars

\* C38 as stated: when Update handles Enter with a debounce timer pending
\* and an item selected once the flush has run, the GetResults command of
\* the flush is among the commands handed to the runtime (it is dispatched
\* in that step, together with the command Execute returned).
C38_Step ==
    EnterHandled /\ ev'.pending /\ ev'.executed => cmds' = cmds (+) QueryCmd(text)

C38_FlushedQueryKept == [][C38_Step]_vars

\* ===================================================================
\* Enabled and disabled in the plugin list
\* ===================================================================
\* PluginManagerPlugin.GetResults, the plugins it lists for the empty query:
\* every enabled plugin
EnabledResults == {[identifier |-> kw, enabled |-> TRUE] : kw \in DOMAIN plugins}

\* (every keyword of the disabled metadata, enabled or not)
DisabledResultsUnfiltered ==
    {[identifier |-> kw, enabled |-> FALSE] : kw \in DOMAIN disabledPluginsMetadata}

\* and the disabled metadata of the keywords not already listed as enabled
DisabledResults ==
    {[identifier |-> kw, enabled |-> FALSE] :
        kw \in {k \in DOMAIN disabledPluginsMetadata : k \notin DOMAIN plugins}}

\* the results of the list with identifier kw
ResultsFor(kw) == {r \in EnabledResults \cup DisabledResults : r.identifier = kw}

\* C39 as stated: no keyword is a key of the enabled map and of the disabled
\* metadata map at once.
C39_MapsDisjoint == DOMAIN plugins \cap DOMAIN disabledPluginsMetadata = {}

C39_State ==
    \A kw \in DOMAIN plugins \cup DOMAIN disabledPluginsMetadata :
        /\ Cardinality(ResultsFor(kw)) = 1
        /\ \A r \in ResultsFor(kw) : r.enabled <=> kw \in DOMAIN plugins

C39_Step ==
    \A kw \in DOMAIN disabledPluginsMetadata' :
        \/ kw \notin DOMAIN plugins
        \/ /\ kw \in DOMAIN disabledPluginsMetadata
           /\ disabledPluginsMetadata'[kw] = disabledPluginsMetadata[kw]

\* C39, amended: after any interleaving of RegisterPlugin and
\* RegisterMetadata calls every registered keyword is listed exactly once,
\* as enabled if it is a key of the enabled map and as disabled otherwise,
\* and no call records or replaces disabled metadata under a keyword that is
\* a key of the enabled map (a keyword is a key of both maps only when its
\* metadata was recorded before its plugin was registered).
C39_ListedOnce == []C39_State /\ [][C39_Step]_vars

\* RegisterPlugin has just registered the plugin of a keyword recorded as
\* disabled metadata: the keyword is a key of both maps and listed as enabled
C39_Witness ==
    /\ ret.op = "register"
    /\ ~ret.err
    /\ ret.keyword = KwW
    /\ KwW \in DOMAIN plugins \cap DOMAIN disabledPluginsMetadata
    /\ ResultsFor(KwW) = {[identifier |-> KwW, enabled |-> TRUE]}

\* ===================================================================
\* Results after typing
\* ===================================================================
\* the key pressed last edited the text and the timer it armed is pending,
\* n keys are left to press, the loop has not been told to quit
StoppedEditing(n) == keys.left = n /\ keys.edited /\ debounceTimer = "armed" /\ ~quitting

\* what the plugin routing resolves for q may answer GetResults(q) with
ComputedFor(q) ==
    {Results(Resolved(q), PluginQuery(Resolved(q), q), outcome) : outcome \in Outcomes}

\* Update has just applied a result message for the text in the query box,
\* and the list holds what the message brought
Settled ==
    /\ ResultHandled
    /\ ev.applied
    /\ lastQuery = text
    /\ list \in ComputedFor(text)

\* C36: with timers that fire, commands that are run and messages that are
\* delivered, once the user has edited the text by a keystroke, either
\* another key is pressed or a GetResults command for the text is dispatched
\* and run and its result message is accepted: the list then holds the
\* results the resolved plugin computed for the text.
C36_TypingSettles ==
    \A n \in 0..MaxTyped : StoppedEditing(n) ~> (Settled \/ keys.left < n)

\* the user has typed "w" and pressed no key since: the result of the "w"
\* plugin for it has been applied and is on display
C36_Witness ==
    /\ keys.left = MaxTyped - 1
    /\ keys.edited
    /\ ~quitting
    /\ Settled
    /\ text = KwW
    /\ list # <<>>
    /\ list[1].by = KwW

====
